---- MODULE Spec2Model ----
(***************************************************************************)
(* Model of the scrapper's asynchronous deep-scrape pipeline:              *)
(*   app/internal/util.py          normalize_url                           *)
(*   app/internal/redis_queue.py   job queue, job records, per-URL lock    *)
(*   app/internal/redis_cache.py   two-tier result store                   *)
(*   app/router/deep_scrape.py     breadth-first crawler, async endpoint   *)
(*   app/worker_deep_scrape.py     worker loop and process_job             *)
(*   app/router/ws.py              progress streaming endpoint             *)
(*                                                                         *)
(* Strings whose structure matters (hosts, paths, query keys) are tuples   *)
(* of tokens, so that prefix, suffix and case operations are computed.     *)
(* Percent values are kept in hundredths (100.00 is 10000), the precision  *)
(* of round(x, 2).                                                         *)
(***************************************************************************)
EXTENDS Integers, Sequences, FiniteSets, TLC

(***************************************************************************)
(* Bounds of the model                                                     *)
(***************************************************************************)
\* the clock advances in steps of TickLen seconds, up to MaxTime
TickLen == 300
MaxTime == 600
\* largest crawl depth and fan-out cap a request asks for
MaxDepth == 3
MaxFanout == 3
MaxSlots == 2

(***************************************************************************)
(* Program constants                                                       *)
(***************************************************************************)
LOCK_TTL == 600
LINKS_PER_PAGE == 20

NoneVal == "None"          \* None where a string is expected
Nil == [nil |-> TRUE]      \* None where a dict or an object is expected

Workers == {"w1", "w2"}
Jobs == {"j1", "j2", "j3"}
Subs == {"s1"}
Conns == {"c1", "c2", "c3"}

(***************************************************************************)
(* URLs.  A URL string is the record of its urlparse components; netloc,   *)
(* path and query keys are token tuples.                                   *)
(***************************************************************************)
Url(scheme, netloc, path, query, fragment) ==
    [kind |-> "str", scheme |-> scheme, netloc |-> netloc, path |-> path,
     query |-> query, fragment |-> fragment]

QP(k, v) == [k |-> k, v |-> v]

\* str.lower() on a token
LowerTok(t) ==
    CASE t = "Site" -> "site"
      [] t = "COM" -> "com"
      [] t = "Admin" -> "admin"
      [] OTHER -> t

Lower(s) == [n \in 1..Len(s) |-> LowerTok(s[n])]

\* str.rstrip('/') on a path
RECURSIVE RStripSlash(_)
RStripSlash(p) ==
    IF p # <<>> /\ p[Len(p)] = "/" THEN RStripSlash(SubSeq(p, 1, Len(p) - 1)) ELSE p

ignore_params ==
    { <<"utm_", "source">>, <<"utm_", "medium">>, <<"utm_", "campaign">>,
      <<"utm_", "term">>, <<"utm_", "content">>,
      <<"ref">>, <<"referrer">>, <<"session">>, <<"fbclid">>, <<"gclid">>,
      <<"yclid">>, <<"mc_cid">>, <<"mc_eid">> }

StartsWithUtm(k) == k # <<>> /\ k[1] = "utm_"

\* a filter on the listed keys alone, which keeps other utm_ keys
KeepParamListed(p) == p.k \notin ignore_params

KeepParam(p) == p.k \notin ignore_params /\ ~StartsWithUtm(p.k)

\* urlencode(parse_qsl(...)) on a value: percent escapes are decoded and the
\* value is quoted again with quote_plus
ReEncode(v) ==
    CASE v = "a%20b" -> "a+b"
      [] v = "a b" -> "a+b"
      [] OTHER -> v

\* a value that is not a str makes urlparse raise, and normalize_url returns
\* its argument unchanged
normalize_url(url) ==
    IF url.kind # "str" THEN url
    ELSE LET netloc == Lower(url.netloc)
             kept == SelectSeq(url.query, KeepParam)
             query == [n \in 1..Len(kept) |-> QP(kept[n].k, ReEncode(kept[n].v))]
             path0 == IF url.path = <<>> THEN <<"/">> ELSE url.path
             path == IF path0 # <<"/">> /\ path0[Len(path0)] = "/"
                     THEN RStripSlash(path0) ELSE path0
         IN Url(url.scheme, netloc, path, query, "")

\* util.split_url: the path with query as a Starlette URL object
FullPath(url) == [kind |-> "URL", path |-> url.path, query |-> url.query]

UA == Url("https", <<"Site", ".", "com">>, <<"/", "x">>,
          <<QP(<<"id">>, "1"), QP(<<"utm_", "source">>, "g")>>, "")
UB == Url("https", <<"site", ".", "com">>, <<"/", "x", "/">>,
          <<QP(<<"id">>, "1")>>, "top")
UC == Url("https", <<"other", ".", "org">>, <<>>, <<>>, "")
UD == Url("https", <<"site", ".", "com">>, <<"/", "hub">>, <<>>, "")

\* pages of the rendered sites
P1 == Url("https", <<"site", ".", "com">>, <<"/", "a">>, <<>>, "")
P2 == Url("https", <<"site", ".", "com">>, <<"/", "b">>, <<>>, "")
P3 == Url("https", <<"site", ".", "com">>, <<"/", "c">>, <<>>, "")
P4 == Url("https", <<"site", ".", "com">>, <<"/", "d">>, <<>>, "")
P5 == Url("https", <<"site", ".", "com">>, <<"/", "e">>, <<>>, "")
\* anchors the crawler passes over: another site, a sign-in page
X1 == Url("https", <<"cdn", ".", "net">>, <<"/", "a">>, <<>>, "")
X2 == Url("https", <<"site", ".", "com">>, <<"/", "login">>, <<>>, "")
\* a file transfer link, a capitalised back-office page, an anchor inside a page
X3 == Url("ftp", <<"site", ".", "com">>, <<"/", "f">>, <<>>, "")
X4 == Url("https", <<"site", ".", "com">>, <<"/", "Admin">>, <<>>, "")
X5 == Url("https", <<"site", ".", "com">>, <<"/", "d">>, <<>>, "s2")
\* a seed whose page has anchors of every kind
UE == Url("https", <<"site", ".", "com">>, <<"/", "all">>, <<>>, "")

\* links.js on a rendered page: the absolute URLs of its anchors, in document order
Links(u) ==
    CASE u = UA -> <<P1, P2, P3>>
      [] u = UB -> <<P1, P1, P2>>
      [] u = UD -> <<X1, P1, P2, P1, X2, P3, P4, P5>>
      [] u = UE -> <<X3, X4, X1, P1, X5, P2, UE>>
      [] u = X1 -> <<X1, P3, X2>>
      [] u = P1 -> <<P2, UA, P4>>
      [] u = P2 -> <<P4, P5, P1>>
      [] u = P4 -> <<P5>>
      [] OTHER -> <<>>

(***************************************************************************)
(* State                                                                   *)
(***************************************************************************)
VARIABLES
    now,            \* wall clock, seconds
    queue,          \* Redis list deep_scrape_jobs; index 1 is the LPUSH end
    jobrec,         \* Redis keys deep_scrape_job:{job_id}
    lock,           \* Redis keys lock:{normalized url} -> expiry time
    progress_keys,  \* Redis keys job_progress:{job_id}
    kv,             \* Redis hashes scrape_result:{key}
    files,          \* file-tier cache entries
    cache_cfg,      \* RedisCache instance: redis_enabled, phase
    calls,          \* the last call made directly on the store and what was
                    \* read back since
    req,            \* the request body of each async request
    enq,            \* position of each request in deep_scrape_async / enqueue_job
    workers_on,     \* the worker processes that were started
    app,            \* the API process: its semaphore and its synchronous
                    \* deep_scrape requests
    pc,             \* position of each worker in main / process_job
    wjob,           \* the job a worker holds (dequeue_job's return value)
    exc,            \* the exception a worker is handling or propagating
    cr,             \* deep_scrape's local variables, per worker
    spc,            \* position of each streaming connection in ws_deep_scrape_progress
    sjob,           \* job id in the path of each streaming connection
    inbox,          \* pub/sub messages delivered to a connection, not yet read
    sent,           \* snapshots sent over each websocket
    late,           \* whether the job had ended when the connection was opened
    hist            \* observations per job, kept for the properties

redisVars == <<queue, jobrec, lock, progress_keys>>
storeVars == <<kv, files, cache_cfg, calls>>
apiVars == <<req, enq>>
workerVars == <<workers_on, pc, wjob, exc, cr>>
wsVars == <<spc, sjob, inbox, sent, late>>
vars == <<now, queue, jobrec, lock, progress_keys, kv, files, cache_cfg, calls, req,
          enq,
          workers_on, app, pc, wjob, exc, cr, spc, sjob, inbox, sent, late, hist>>

Seeds == {UA, UB, UC}

\* Python truthiness of an optional string
Truthy(x) == x # NoneVal /\ x # ""

(***************************************************************************)
(* Result store (redis_cache.py over the file cache)                       *)
(***************************************************************************)
\* file cache make_key: the SHA-1 of str(s); the digest is kept as the text
\* it is taken of, and str() of a Starlette URL is its text
FileMakeKey(s) ==
    IF s.kind = "URL" THEN Url("", <<>>, s.path, s.query, "") ELSE s

make_key(path) == FileMakeKey(normalize_url(path))

ResultKeys == {make_key(FullPath(u)) : u \in Seeds} \cup {make_key(u) : u \in Seeds}
LockKeys == {normalize_url(u) : u \in Seeds}

\* the keys the requests r can bring about
ReqLockKeys(r) == {normalize_url(r[j].url) : j \in {i \in DOMAIN r : r[i] # Nil}}
ReqResultKeys(r) ==
    {make_key(FullPath(r[j].url)) : j \in {i \in DOMAIN r : r[i] # Nil}} \cup
    {make_key(r[j].url) : j \in {i \in DOMAIN r : r[i] # Nil}}

RedisOn(cfg) == cfg.redis_enabled /\ cfg.phase >= 1

\* the empty dict
EmptyDict == <<>>

\* Python truthiness of an optional dict
DictTruthy(v) == v # Nil /\ v # EmptyDict

\* json.loads(json.dumps(v)): keys that are ints come back as strings; a dict
\* of string keys comes back equal
Json(v) == IF "keys" \in DOMAIN v THEN [v EXCEPT !.keys = "str"] ELSE v

KvOutcomes == {"ok", "hset_fails", "expire_fails"}

\* a store that raises whenever the file write fails
StoreResultFileStrict(cfg, st, key, data, kvOut, fileOk) ==
    LET held == RedisOn(cfg) /\ kvOut \in {"ok", "expire_fails"}
        kv1 == IF held THEN [st.kv EXCEPT ![key] = Json(data)] ELSE st.kv
    IN IF cfg.phase <= 2
       THEN IF fileOk
            THEN [kv |-> kv1, files |-> [st.files EXCEPT ![key] = Json(data)],
                  ret |-> "True"]
            ELSE [kv |-> kv1, files |-> st.files, ret |-> "raise"]
       ELSE [kv |-> kv1, files |-> st.files,
             ret |-> IF RedisOn(cfg) /\ kvOut = "ok" THEN "True" ELSE "False"]

\* RedisCache.store_result on the tiers st = [kv, files].  kvOut says how the
\* Redis calls end: both succeed, hset raises, or hset succeeds and expire
\* raises (the hash is then written and success stays False); fileOk says
\* whether the file write succeeds.  ret is "True", "False" or "raise".
StoreResultSteps(cfg, st, key, data, kvOut, fileOk) ==
    LET success1 == RedisOn(cfg) /\ kvOut = "ok"
        held == RedisOn(cfg) /\ kvOut \in {"ok", "expire_fails"}
        kv1 == IF held THEN [st.kv EXCEPT ![key] = Json(data)] ELSE st.kv
    IN IF cfg.phase <= 2
       THEN IF fileOk
            THEN [kv |-> kv1, files |-> [st.files EXCEPT ![key] = Json(data)],
                  ret |-> "True"]
            ELSE [kv |-> kv1, files |-> st.files,
                  ret |-> IF success1 THEN "True" ELSE "raise"]
       ELSE [kv |-> kv1, files |-> st.files,
             ret |-> IF success1 THEN "True" ELSE "False"]

\* store_result with a Redis write that succeeds or fails as a whole
StoreResult(cfg, st, key, data, kvOk, fileOk) ==
    StoreResultSteps(cfg, st, key, data, IF kvOk THEN "ok" ELSE "hset_fails", fileOk)

\* RedisCache.load_result: the value (or None) and the tiers after the
\* opportunistic copy of a file hit into Redis.  A hash that is there is
\* returned whatever its data; a file entry is returned when it is truthy.
\* fread: file_cache.load_result was called (line 168); fwrote:
\* file_cache.store_result was called, which the copy does because it goes
\* through self.store_result (line 175, then lines 127-129)
LoadResult(cfg, st, key, kvOk) ==
    IF RedisOn(cfg) /\ kvOk /\ st.kv[key] # Nil
    THEN [val |-> st.kv[key], kv |-> st.kv, files |-> st.files,
          fread |-> FALSE, fwrote |-> FALSE]
    ELSE IF cfg.phase <= 2 /\ DictTruthy(st.files[key])
         THEN LET w == IF RedisOn(cfg)
                       THEN StoreResult(cfg, st, key, st.files[key], kvOk, TRUE)
                       ELSE [kv |-> st.kv, files |-> st.files]
              IN [val |-> st.files[key], kv |-> w.kv, files |-> w.files,
                  fread |-> TRUE, fwrote |-> RedisOn(cfg)]
         ELSE [val |-> Nil, kv |-> st.kv, files |-> st.files,
               fread |-> cfg.phase <= 2, fwrote |-> FALSE]

\* RedisCache.exists
Exists(cfg, st, key, kvOk) ==
    IF RedisOn(cfg) /\ kvOk /\ st.kv[key] # Nil
    THEN TRUE
    ELSE cfg.phase <= 2 /\ st.files[key] # Nil

\* file_cache.delete_result: the entry is removed; True when there was one
FileDeleteResult(fs, key) ==
    [files |-> [fs EXCEPT ![key] = Nil], ret |-> fs[key] # Nil]

\* file_cache.cleanup_expired: the entries past their TTL are removed and
\* counted
FileCleanupExpired(fs, expired) ==
    [files |-> [k \in DOMAIN fs |-> IF k \in expired THEN Nil ELSE fs[k]],
     ret |-> Cardinality({k \in expired : fs[k] # Nil})]

\* a delete that leaves the file tier alone in every phase
DeleteResultKvOnly(cfg, st, key, kvOk, fileOk) ==
    LET kvDel == RedisOn(cfg) /\ kvOk
    IN [kv |-> IF kvDel THEN [st.kv EXCEPT ![key] = Nil] ELSE st.kv,
        files |-> st.files,
        ret |-> kvDel /\ st.kv[key] # Nil]

\* RedisCache.delete_result: kvOk and fileOk say whether the delete of a tier
\* completes or raises; ret is the success flag of line 212
DeleteResult(cfg, st, key, kvOk, fileOk) ==
    LET kvDel == RedisOn(cfg) /\ kvOk
        fDel == cfg.phase <= 2 /\ fileOk
        f == FileDeleteResult(st.files, key)
    IN [kv |-> IF kvDel THEN [st.kv EXCEPT ![key] = Nil] ELSE st.kv,
        files |-> IF fDel THEN f.files ELSE st.files,
        ret |-> (kvDel /\ st.kv[key] # Nil) \/ (fDel /\ f.ret)]

\* RedisCache.cleanup_expired: with Redis answering, the number of
\* scrape_result:* keys is returned at once (line 276); otherwise the file
\* tier is swept in phases 1 and 2.  expired: the file entries past their TTL
CleanupExpired(cfg, st, expired, kvOk, fileOk) ==
    IF cfg.redis_enabled /\ kvOk
    THEN [files |-> st.files,
          ret |-> Cardinality({k \in DOMAIN st.kv : st.kv[k] # Nil})]
    ELSE IF cfg.phase <= 2 /\ fileOk
         THEN FileCleanupExpired(st.files, expired)
         ELSE [files |-> st.files, ret |-> 0]

\* RedisCache.__init__ and _init_redis: REDIS_ENABLED, whether the ping
\* succeeds, and REDIS_MIGRATION_PHASE
RedisCacheInit(enabled, reachable, phase) ==
    IF enabled /\ reachable
    THEN [redis_enabled |-> TRUE, phase |-> phase]
    ELSE [redis_enabled |-> FALSE, phase |-> 1]

NoCall ==
    [key |-> Nil, v |-> Nil, ret |-> "", kvOut |-> "", fileOk |-> FALSE,
     wiped |-> FALSE, loaded |-> FALSE, got |-> Nil, ex |-> "",
     op |-> "", held |-> {}, expired |-> {}, count |-> 0,
     fread |-> FALSE, fwrote |-> FALSE]

Tiers == [kv |-> kv, files |-> files]

(***************************************************************************)
(* Job records (redis_queue.py)                                            *)
(***************************************************************************)
\* no record written
NewJobRecordNone(job_id, job_data) == Nil

\* enqueue_job's job_record; created_at and updated_at are left out
NewJobRecord(job_id, job_data) ==
    [job_id |-> job_id, status |-> "pending", error |-> NoneVal,
     result_id |-> Nil, params |-> job_data, progress |-> Nil]

\* a status update that drops the result id
set_job_status_no_result(recs, job_id, status, result_id, error) ==
    IF recs[job_id] = Nil THEN recs
    ELSE [recs EXCEPT ![job_id] =
            [@ EXCEPT !.status = status,
                      !.error = IF Truthy(error) THEN error ELSE @]]

set_job_status(recs, job_id, status, result_id, error) ==
    IF recs[job_id] = Nil THEN recs
    ELSE [recs EXCEPT ![job_id] =
            [@ EXCEPT !.status = status,
                      !.result_id = IF result_id # Nil THEN result_id ELSE @,
                      !.error = IF Truthy(error) THEN error ELSE @]]

set_job_progress(recs, job_id, progress) ==
    IF recs[job_id] = Nil THEN recs
    ELSE [recs EXCEPT ![job_id] = [@ EXCEPT !.progress = progress]]

get_job_progress(recs, job_id) ==
    IF recs[job_id] = Nil THEN Nil ELSE recs[job_id].progress

\* a Redis key with an expiry is gone once its time has come
LockLive(k) == lock[k] > now

(***************************************************************************)
(* Crawler helpers (deep_scrape.py)                                        *)
(***************************************************************************)
Min(a, b) == IF a < b THEN a ELSE b

\* round(100 * num / den, 2) in hundredths, ties to even
Round2(num, den) ==
    LET x == 10000 * num
        q == x \div den
        r == x % den
    IN IF 2 * r > den \/ (2 * r = den /\ q % 2 = 1) THEN q + 1 ELSE q

\* a percent that leaves the level out
PagePercentNoLevel(L, i, n, D) == IF n > 0 THEN Round2(i + 1, n * D) ELSE 0

\* percent of the snapshot after page i (0-based) of n at level L, depth D:
\* round(100 * (L + (i + 1) / n) / D, 2) if n > 0 else 0
PagePercent(L, i, n, D) == IF n > 0 THEN Round2(L * n + i + 1, n * D) ELSE 0

\* percent of the snapshot at the end of level L: round(100 * (L + 1) / D, 2)
LevelPercent(L, D) == Round2(L + 1, D)

Snapshot(level, page, inLevel, D, total, percent, status) ==
    [current_level |-> level, current_page |-> page, pages_in_level |-> inLevel,
     total_levels |-> D, total_pages |-> total, percent |-> percent,
     status |-> status]

\* tldextract(...).registered_domain: the last labels of the host, lower case
RegisteredDomain(u) == Lower(u.netloc)

skip_patterns ==
    {"login", "logout", "register", "signup", "admin", ".pdf", ".doc", ".docx",
     ".zip", ".exe", ".dmg", "mailto:", "tel:", "javascript:", "feed", "rss",
     "api", "ajax"}

\* the tokens of the text of a URL
UrlTokens(u) ==
    {u.scheme} \cup {u.netloc[n] : n \in 1..Len(u.netloc)}
               \cup {u.path[n] : n \in 1..Len(u.path)}

\* pattern in absolute_url
Contains(u, pattern) == pattern \in UrlTokens(u)

\* skip in absolute_url.lower(); '#' is in the text when a fragment is
ContainsSkip(u) ==
    \/ \E t \in UrlTokens(u) : LowerTok(t) \in skip_patterns
    \/ u.fragment # ""

\* a link test without the domain restriction
_is_valid_urlAnyDomain(link_url, current_url, base_domain, params, visited_urls) ==
    /\ link_url \notin visited_urls
    /\ link_url.scheme \in {"http", "https"}
    /\ \A pattern \in params.exclude_patterns : ~Contains(link_url, pattern)
    /\ ~ContainsSkip(link_url)

\* links are absolute, so urljoin(current_url, link_url) is link_url
_is_valid_url(link_url, current_url, base_domain, params, visited_urls) ==
    /\ link_url \notin visited_urls
    /\ link_url.scheme \in {"http", "https"}
    /\ params.same_domain_only => RegisteredDomain(link_url) = base_domain
    /\ \A pattern \in params.exclude_patterns : ~Contains(link_url, pattern)
    /\ ~ContainsSkip(link_url)

\* a drain that batches every popped entry, visited or not
RECURSIVE DrainRevisit(_, _, _, _)
DrainRevisit(url_queue, level, visited, batch) ==
    IF url_queue # <<>> /\ url_queue[1].depth = level
    THEN DrainRevisit(Tail(url_queue), level, visited \cup {url_queue[1].url},
                      Append(batch, url_queue[1]))
    ELSE [url_queue |-> url_queue, visited |-> visited, level_urls |-> batch]

\* lines 555-559: pop the head entries of the current level, batching the
\* URLs not yet visited
RECURSIVE Drain(_, _, _, _)
Drain(url_queue, level, visited, batch) ==
    IF url_queue # <<>> /\ url_queue[1].depth = level
    THEN LET e == url_queue[1]
         IN IF e.url \notin visited
            THEN Drain(Tail(url_queue), level, visited \cup {e.url}, Append(batch, e))
            ELSE Drain(Tail(url_queue), level, visited, batch)
    ELSE [url_queue |-> url_queue, visited |-> visited, level_urls |-> batch]

\* valid links put at the head of the queue
RECURSIVE PushLinksFront(_, _, _, _, _, _, _)
PushLinksFront(url_queue, links, current_url, base_domain, params, visited, entry) ==
    IF links = <<>> THEN url_queue
    ELSE PushLinksFront(
           IF _is_valid_url(links[1], current_url, base_domain, params, visited)
           THEN <<[url |-> links[1], depth |-> entry.depth,
                   parent |-> entry.parent]>> \o url_queue
           ELSE url_queue,
           Tail(links), current_url, base_domain, params, visited, entry)

\* lines 611-619: the queue after the links of a page were tested and appended
RECURSIVE PushLinks(_, _, _, _, _, _, _)
PushLinks(url_queue, links, current_url, base_domain, params, visited, entry) ==
    IF links = <<>> THEN url_queue
    ELSE PushLinks(
           IF _is_valid_url(links[1], current_url, base_domain, params, visited)
           THEN Append(url_queue, [url |-> links[1], depth |-> entry.depth,
                                   parent |-> entry.parent])
           ELSE url_queue,
           Tail(links), current_url, base_domain, params, visited, entry)

\* a batch cut one URL too late
LimitUrlsOneMore(level_urls, max_urls_per_level) ==
    SubSeq(level_urls, 1, Min(Len(level_urls), max_urls_per_level + 1))

\* a cap that keeps the end of the batch
LimitUrlsLast(level_urls, max_urls_per_level) ==
    SubSeq(level_urls, Len(level_urls) - Min(Len(level_urls), max_urls_per_level) + 1,
           Len(level_urls))

\* a batch that is not cut
LimitUrlsNone(level_urls, max_urls_per_level) == level_urls

\* line 565: level_urls[:max_urls_per_level]
LimitUrls(level_urls, max_urls_per_level) ==
    SubSeq(level_urls, 1, Min(Len(level_urls), max_urls_per_level))

\* links extracted on every level that is rendered
ExtractsLinksEveryLevel(current_level, depth) == current_level < depth

\* line 607: whether links.js runs on a page of the level
ExtractsLinks(current_level, depth) == current_level + 1 < depth

NoCrawl == [active |-> FALSE]

\* lines 521-548: the locals of deep_scrape before the loop
NewCrawl(seed) ==
    [active |-> TRUE, r_id |-> make_key(FullPath(seed)), url_queue |-> <<[url |-> seed, depth |-> 0, parent |-> -1]>>,
     visited |-> {}, all_results |-> <<>>, level_results |-> <<>>,
     current_level |-> 0, level_urls |-> <<>>, i |-> 0, pages |-> <<>>,
     result |-> Nil]

(***************************************************************************)
(* Initial states                                                          *)
(***************************************************************************)
Body(url, depth, fanout) ==
    [url |-> url, depth |-> depth, max_urls_per_level |-> fanout, cache |-> TRUE,
     same_domain_only |-> TRUE, exclude_patterns |-> {}]

\* a synchronous request that was not made
NoConn == [pc |-> "none", body |-> Nil, cr |-> NoCrawl, took |-> 0, gave |-> 0]

\* an API process without synchronous requests
NoApp == [cap |-> 1, sem |-> 1, conn |-> [c \in Conns |-> NoConn]]

NoHist ==
    [running |-> FALSE, lockFailed |-> FALSE, rendered |-> 0, stores |-> 0,
     prog |-> <<>>, pub |-> <<>>, renders |-> <<>>, batches |-> <<>>,
     deqAt |-> -1, by |-> "", sawLive |-> FALSE,
     enqPrior |-> {}, popped |-> FALSE, popPrior |-> {},
     returned |-> FALSE, retPrior |-> {}, raised |-> "",
     acquired |-> FALSE, released |-> FALSE]

InitWith(reqs, won, cfgs, subsOn) ==
    /\ req \in reqs
    /\ now = 0
    /\ queue = <<>>
    /\ jobrec = [j \in Jobs |-> Nil]
    /\ lock = [k \in LockKeys \cup ReqLockKeys(req) |-> 0]
    /\ progress_keys = [j \in Jobs |-> Nil]
    /\ kv = [k \in ResultKeys \cup ReqResultKeys(req) |-> Nil]
    /\ files = [k \in ResultKeys \cup ReqResultKeys(req) |-> Nil]
    /\ cache_cfg \in cfgs
    /\ calls = NoCall
    /\ enq = [j \in Jobs |-> IF req[j] = Nil THEN "none" ELSE "new"]
    /\ workers_on = won
    /\ app = NoApp
    /\ pc = [w \in Workers |-> "idle"]
    /\ wjob = [w \in Workers |-> Nil]
    /\ exc = [w \in Workers |-> ""]
    /\ cr = [w \in Workers |-> NoCrawl]
    /\ spc = [s \in Subs |-> IF s \in subsOn THEN "new" ELSE "none"]
    /\ sjob = [s \in Subs |-> "j1"]
    /\ inbox = [s \in Subs |-> <<>>]
    /\ sent = [s \in Subs |-> <<>>]
    /\ late = [s \in Subs |-> FALSE]
    /\ hist = [j \in Jobs |-> NoHist]

\* RedisCache.__init__: without Redis the phase stays 1
CacheCfgs ==
    {[redis_enabled |-> FALSE, phase |-> 1]} \cup
    {[redis_enabled |-> TRUE, phase |-> ph] : ph \in {1, 2, 3}}

(***************************************************************************)
(* Async endpoint and enqueue_job                                          *)
(***************************************************************************)
\* deep_scrape_async, lines 1025-1038: the cache lookup under make_key(body.url)
AsyncCheck(j) ==
    /\ enq[j] = "new"
    /\ LET r == LoadResult(cache_cfg, Tiers, make_key(req[j].url), TRUE)
       IN /\ kv' = r.kv
          /\ files' = r.files
          /\ enq' = [enq EXCEPT ![j] = IF r.val # Nil THEN "cached" ELSE "miss"]
    /\ UNCHANGED <<now, redisVars, cache_cfg, calls, req, workerVars, app, wsVars, hist>>

\* enqueue_job, lines 33-44: the job record is written
EnqueueSet(j) ==
    /\ enq[j] = "miss"
    /\ jobrec' = [jobrec EXCEPT ![j] = NewJobRecord(j, req[j])]
    /\ enq' = [enq EXCEPT ![j] = "recorded"]
    /\ hist' = [hist EXCEPT ![j].enqPrior = {a \in Jobs : enq[a] = "pushed"}]
    /\ UNCHANGED <<now, queue, lock, progress_keys, storeVars, req, workerVars, app, wsVars>>

\* LPUSH: the id goes to the head of the list
lpush(list, job_id) == <<job_id>> \o list

\* enqueue_job, lines 45-51: LPUSH of the job id, and return
EnqueuePush(j) ==
    /\ enq[j] = "recorded"
    /\ queue' = lpush(queue, j)
    /\ enq' = [enq EXCEPT ![j] = "pushed"]
    /\ UNCHANGED <<now, jobrec, lock, progress_keys, storeVars, req, workerVars, app, wsVars, hist>>

(***************************************************************************)
(* Worker: main loop and dequeue_job                                       *)
(***************************************************************************)
\* a list that pops at the end it pushes to
brpop_head(list) == [job_id |-> list[1], rest |-> Tail(list)]

\* a read of the tail that leaves the id on the list
brpop_peek(list) == [job_id |-> list[Len(list)], rest |-> list]

\* BRPOP: the id at the tail of the list is taken
brpop(list) == [job_id |-> list[Len(list)], rest |-> SubSeq(list, 1, Len(list) - 1)]

\* dequeue_job, line 60; a BRPOP that times out (line 72, and the sleep of
\* main) changes nothing
DequeuePop(w) ==
    /\ w \in workers_on
    /\ pc[w] = "idle"
    /\ queue # <<>>
    /\ LET j == brpop(queue).job_id
       IN /\ queue' = brpop(queue).rest
          /\ wjob' = [wjob EXCEPT ![w] = [job_id |-> j]]
          /\ hist' = [hist EXCEPT ![j].popped = TRUE,
                                  ![j].popPrior = {a \in Jobs : hist[a].popped}]
    /\ pc' = [pc EXCEPT ![w] = "deq_get"]
    /\ UNCHANGED <<now, jobrec, lock, progress_keys, storeVars, apiVars, workers_on, app,
                   exc, cr, wsVars>>

\* dequeue_job, lines 61-72: the record is read and returned, None without one
DequeueGet(w) ==
    /\ pc[w] = "deq_get"
    /\ LET j == wjob[w].job_id
       IN IF jobrec[j] # Nil
          THEN /\ wjob' = [wjob EXCEPT ![w] = jobrec[j]]
               /\ pc' = [pc EXCEPT ![w] = "acquire"]
               /\ hist' = [hist EXCEPT ![j].returned = TRUE,
                                       ![j].retPrior = {a \in Jobs : hist[a].returned},
                                       ![j].deqAt = now,
                                       ![j].by = w]
          ELSE /\ wjob' = [wjob EXCEPT ![w] = Nil]
               /\ pc' = [pc EXCEPT ![w] = "idle"]
               /\ hist' = hist
    /\ UNCHANGED <<now, redisVars, storeVars, apiVars, workers_on, app, exc, cr, wsVars>>

(***************************************************************************)
(* Lock (redis_queue.py) and process_job (worker_deep_scrape.py)           *)
(***************************************************************************)
JobId(w) == wjob[w].job_id
Params(w) == wjob[w].params
LockKey(w) == normalize_url(Params(w).url)

SKIPPED_ERROR_EMPTY == ""

SKIPPED_ERROR == "Lock nao adquirido, processamento concorrente detectado."

\* a SET without NX
acquire_lock_no_nx(locks, key, t) == TRUE

\* acquire_lock: SET key '1' NX EX ttl, true iff the key was absent
acquire_lock(locks, key, t) == locks[key] <= t

\* release_lock: DEL key
release_lock(locks, key) == [locks EXCEPT ![key] = 0]

\* publish_progress: the message reaches the connections subscribed now
Publish(ib, job_id, progress) ==
    [s \in Subs |-> IF spc[s] = "listening"
                    THEN Append(ib[s], [job_id |-> job_id, progress |-> progress])
                    ELSE ib[s]]

\* progress_callback and the final snapshots: set_job_progress, then publish
Emitted(h, job_id, progress) ==
    [h EXCEPT ![job_id].prog = Append(@, progress),
              ![job_id].pub = Append(@, progress)]

\* process_job, line 29: acquire_lock(url)
AcquireLock(w) ==
    /\ pc[w] = "acquire"
    /\ IF acquire_lock(lock, LockKey(w), now)
       THEN /\ lock' = [lock EXCEPT ![LockKey(w)] = now + LOCK_TTL]
            /\ pc' = [pc EXCEPT ![w] = "set_running"]
            /\ hist' = [hist EXCEPT ![JobId(w)].sawLive = LockLive(LockKey(w)),
                                    ![JobId(w)].acquired = TRUE]
       ELSE /\ lock' = lock
            /\ pc' = [pc EXCEPT ![w] = "set_skipped"]
            /\ hist' = [hist EXCEPT ![JobId(w)].lockFailed = TRUE,
                                    ![JobId(w)].sawLive = LockLive(LockKey(w))]
    /\ UNCHANGED <<now, queue, jobrec, progress_keys, storeVars, apiVars, workers_on, app,
                   wjob, exc, cr, wsVars>>

\* process_job, lines 30-32: the job is finalized as skipped
SetSkipped(w) ==
    /\ pc[w] = "set_skipped"
    /\ jobrec' = set_job_status(jobrec, JobId(w), "skipped", Nil, SKIPPED_ERROR)
    /\ pc' = [pc EXCEPT ![w] = "idle"]
    /\ wjob' = [wjob EXCEPT ![w] = Nil]
    /\ UNCHANGED <<now, queue, lock, progress_keys, storeVars, apiVars, workers_on, app,
                   exc, cr, wsVars, hist>>

\* process_job, line 33
SetRunning(w) ==
    /\ pc[w] = "set_running"
    /\ jobrec' = set_job_status(jobrec, JobId(w), "running", Nil, NoneVal)
    /\ pc' = [pc EXCEPT ![w] = "launch"]
    /\ hist' = [hist EXCEPT ![JobId(w)].running = TRUE]
    /\ UNCHANGED <<now, queue, lock, progress_keys, storeVars, apiVars, workers_on, app,
                   wjob, exc, cr, wsVars>>

\* process_job, lines 35-58 and deep_scrape, lines 521-548: the parameters are
\* rebuilt, the browser is launched and deep_scrape consults the store
Launch(w) ==
    /\ pc[w] = "launch"
    /\ LET c == NewCrawl(Params(w).url)
           r == IF Params(w).cache
                THEN LoadResult(cache_cfg, Tiers, c.r_id, TRUE)
                ELSE [val |-> Nil, kv |-> kv, files |-> files]
       IN /\ kv' = r.kv
          /\ files' = r.files
          /\ IF r.val # Nil
             THEN /\ cr' = [cr EXCEPT ![w] = [c EXCEPT !.result = r.val]]
                  /\ pc' = [pc EXCEPT ![w] = "w_store"]
             ELSE /\ cr' = [cr EXCEPT ![w] = c]
                  /\ pc' = [pc EXCEPT ![w] = "collect"]
    /\ UNCHANGED <<now, redisVars, cache_cfg, calls, apiVars, workers_on, app, wjob, exc,
                   wsVars,
                   hist>>

\* an exception of lines 35-58 (a parameter that does not validate, a browser
\* that does not start) reaches the except clause
LaunchFails(w) ==
    /\ pc[w] = "launch"
    /\ exc' = [exc EXCEPT ![w] = "launch failed"]
    /\ pc' = [pc EXCEPT ![w] = "handler"]
    /\ hist' = [hist EXCEPT ![JobId(w)].raised = "launch failed"]
    /\ UNCHANGED <<now, redisVars, storeVars, apiVars, workers_on, app, wjob, cr, wsVars>>

(***************************************************************************)
(* deep_scrape: the crawl loop, driven by the worker                       *)
(***************************************************************************)
Depth(w) == Params(w).depth

\* lines 551-572: the loop test, the batch of the level and its truncation
Collect(w) ==
    /\ pc[w] = "collect"
    /\ LET c == cr[w]
       IN IF c.url_queue # <<>> /\ c.current_level < Depth(w)
          THEN LET d == Drain(c.url_queue, c.current_level, c.visited, <<>>)
                   batch == LimitUrls(d.level_urls, Params(w).max_urls_per_level)
               IN /\ cr' = [cr EXCEPT ![w] =
                              [c EXCEPT !.url_queue = d.url_queue,
                                        !.visited = d.visited,
                                        !.level_urls = batch,
                                        !.i = 0,
                                        !.pages = <<>>]]
                  /\ pc' = [pc EXCEPT ![w] = IF d.level_urls = <<>> THEN "ds_store"
                                             ELSE "page"]
                  /\ hist' = [hist EXCEPT ![JobId(w)].batches =
                                 Append(@, [level |-> c.current_level,
                                            queued |-> SubSeq(c.url_queue, 1,
                                                Len(c.url_queue) - Len(d.url_queue)),
                                            visited |-> c.visited,
                                            level_urls |-> batch])]
          ELSE /\ cr' = cr
               /\ pc' = [pc EXCEPT ![w] = "ds_store"]
               /\ hist' = hist
    /\ UNCHANGED <<now, redisVars, storeVars, apiVars, workers_on, app, wjob, exc, wsVars>>

PageOutcomes == {"ok", "err", "fail"}

\* a page without an article kept in the lists
AppendPageNoArticle(pages, outcome, page_result) ==
    IF outcome \in {"ok", "err"} THEN Append(pages, page_result) ELSE pages

\* a failed render that empties the list it should leave alone
AppendPageOrReset(pages, outcome, page_result) ==
    IF outcome = "ok" THEN Append(pages, page_result)
    ELSE IF outcome = "fail" THEN <<>> ELSE pages

\* lines 622-645 and 664-666: the page joins a list when its article was
\* extracted; a page that raised or gave no article leaves the list as it is
AppendPage(pages, outcome, page_result) ==
    IF outcome = "ok" THEN Append(pages, page_result) ELSE pages

\* lines 574-666, one iteration of the for loop.  outcome "fail": the renderer
\* raises and the page is passed over; "err": article.js returns an err record;
\* "ok": the article is extracted
PageStep(w, outcome) ==
    /\ pc[w] = "page"
    /\ LET c == cr[w]
           e == c.level_urls[c.i + 1]
           n == Len(c.level_urls)
           links == SubSeq(Links(e.url), 1, Min(Len(Links(e.url)), LINKS_PER_PAGE))
           extract == outcome # "fail" /\ ExtractsLinks(c.current_level, Depth(w))
           q1 == IF extract
                 THEN PushLinks(c.url_queue, links, e.url,
                                RegisteredDomain(Params(w).url), Params(w), c.visited,
                                [depth |-> c.current_level + 1,
                                 parent |-> Len(c.all_results)])
                 ELSE c.url_queue
           page_result == [url |-> e.url, parent_index |-> e.parent,
                           level |-> c.current_level]
           res1 == AppendPage(c.all_results, outcome, page_result)
           pages1 == AppendPage(c.pages, outcome, page_result)
           progress == Snapshot(c.current_level, c.i + 1, n, Depth(w), Len(res1),
                                PagePercent(c.current_level, c.i, n, Depth(w)), "")
           h1 == [hist EXCEPT ![JobId(w)].rendered = @ + 1,
                              ![JobId(w)].renders =
                                  Append(@, [url |-> e.url, level |-> c.current_level,
                                             outcome |-> outcome,
                                             extract |-> extract])]
       IN /\ cr' = [cr EXCEPT ![w] = [c EXCEPT !.url_queue = q1, !.all_results = res1,
                                               !.pages = pages1, !.i = c.i + 1]]
          /\ pc' = [pc EXCEPT ![w] = IF c.i + 1 = n THEN "level_end" ELSE "page"]
          /\ IF outcome = "fail"
             THEN /\ jobrec' = jobrec
                  /\ inbox' = inbox
                  /\ hist' = h1
             ELSE /\ jobrec' = set_job_progress(jobrec, JobId(w), progress)
                  /\ inbox' = Publish(inbox, JobId(w), progress)
                  /\ hist' = Emitted(h1, JobId(w), progress)
    /\ UNCHANGED <<now, queue, lock, progress_keys, storeVars, apiVars, workers_on, app,
                   wjob, exc, spc, sjob, sent, late>>

\* lines 668-683: the level is aggregated and its snapshot emitted
LevelEnd(w) ==
    /\ pc[w] = "level_end"
    /\ LET c == cr[w]
           progress == Snapshot(c.current_level + 1, 0, 0, Depth(w), Len(c.all_results),
                                LevelPercent(c.current_level, Depth(w)), "")
       IN /\ cr' = [cr EXCEPT ![w] =
                      [c EXCEPT !.level_results =
                                    IF c.pages # <<>>
                                    THEN Append(@, [level |-> c.current_level,
                                                    pages |-> c.pages])
                                    ELSE @,
                                !.current_level = c.current_level + 1]]
          /\ jobrec' = set_job_progress(jobrec, JobId(w), progress)
          /\ inbox' = Publish(inbox, JobId(w), progress)
          /\ hist' = Emitted(hist, JobId(w), progress)
    /\ pc' = [pc EXCEPT ![w] = "collect"]
    /\ UNCHANGED <<now, queue, lock, progress_keys, storeVars, apiVars, workers_on, app,
                   wjob, exc, spc, sjob, sent, late>>

\* lines 685-698: the result dict
CrawlResult(c, seed) ==
    [id |-> c.r_id, base_url |-> seed, total_pages |-> Len(c.all_results),
     levels |-> c.level_results]

\* deep_scrape, lines 685-711: the result is built, stored and returned.  A
\* store_result that raises ends deep_scrape with that exception.
DsStoreWith(w, kvOk, fileOk) ==
    /\ pc[w] = "ds_store"
    /\ LET c == cr[w]
           result == CrawlResult(c, Params(w).url)
           st == StoreResult(cache_cfg, Tiers, c.r_id, result, kvOk, fileOk)
       IN /\ kv' = st.kv
          /\ files' = st.files
          /\ hist' = [hist EXCEPT ![JobId(w)].stores = @ + 1,
                                  ![JobId(w)].raised =
                                      IF st.ret = "raise" THEN "store failed" ELSE @]
          /\ IF st.ret = "raise"
             THEN /\ exc' = [exc EXCEPT ![w] = "store failed"]
                  /\ pc' = [pc EXCEPT ![w] = "handler"]
                  /\ cr' = cr
             ELSE /\ exc' = exc
                  /\ pc' = [pc EXCEPT ![w] = "w_store"]
                  /\ cr' = [cr EXCEPT ![w] = [c EXCEPT !.result = result]]
    /\ UNCHANGED <<now, redisVars, cache_cfg, calls, apiVars, workers_on, app, wjob, wsVars>>

DsStore(w) == DsStoreWith(w, TRUE, TRUE)

(***************************************************************************)
(* process_job after the crawl                                             *)
(***************************************************************************)
\* process_job, lines 68-70: redis_cache.store_result(r_id, result); the
\* value it returns is not looked at
WStoreWith(w, kvOk, fileOk) ==
    /\ pc[w] = "w_store"
    /\ LET result == cr[w].result
           st == StoreResult(cache_cfg, Tiers, result.id, result, kvOk, fileOk)
       IN /\ kv' = st.kv
          /\ files' = st.files
          /\ hist' = [hist EXCEPT ![JobId(w)].stores = @ + 1,
                                  ![JobId(w)].raised =
                                      IF st.ret = "raise" THEN "store failed" ELSE @]
          /\ IF st.ret = "raise"
             THEN /\ exc' = [exc EXCEPT ![w] = "store failed"]
                  /\ pc' = [pc EXCEPT ![w] = "handler"]
             ELSE /\ exc' = exc
                  /\ pc' = [pc EXCEPT ![w] = "set_done"]
    /\ UNCHANGED <<now, redisVars, cache_cfg, calls, apiVars, workers_on, app, wjob, cr,
                   wsVars>>

WStore(w) == WStoreWith(w, TRUE, TRUE)

\* process_job, line 71
SetDone(w) ==
    /\ pc[w] = "set_done"
    /\ jobrec' = set_job_status(jobrec, JobId(w), "done", cr[w].result.id, NoneVal)
    /\ pc' = [pc EXCEPT ![w] = "final_progress"]
    /\ UNCHANGED <<now, queue, lock, progress_keys, storeVars, apiVars, workers_on, app,
                   wjob, exc, cr, wsVars, hist>>

\* process_job, lines 74-84
final_progress(w) ==
    Snapshot(Depth(w), 0, 0, Depth(w), cr[w].result.total_pages, 10000, "done")

\* an error snapshot that keeps the percent of the last saved one
error_progress_stale(w) ==
    Snapshot(0, 0, 0, 0, 0,
             IF jobrec[JobId(w)].progress = Nil THEN 0
             ELSE jobrec[JobId(w)].progress.percent, "error")

\* process_job, lines 92-103
error_progress(w) == Snapshot(0, 0, 0, 0, 0, 10000, "error")

\* process_job, lines 85-86
FinalProgress(w) ==
    /\ pc[w] = "final_progress"
    /\ jobrec' = set_job_progress(jobrec, JobId(w), final_progress(w))
    /\ inbox' = Publish(inbox, JobId(w), final_progress(w))
    /\ hist' = Emitted(hist, JobId(w), final_progress(w))
    /\ pc' = [pc EXCEPT ![w] = "close"]
    /\ UNCHANGED <<now, queue, lock, progress_keys, storeVars, apiVars, workers_on, app,
                   wjob, exc, cr, spc, sjob, sent, late>>

\* process_job, line 87: browser.close(), the try block ends
BrowserClose(w) ==
    /\ pc[w] = "close"
    /\ pc' = [pc EXCEPT ![w] = "release"]
    /\ UNCHANGED <<now, redisVars, storeVars, apiVars, workers_on, app, wjob, exc, cr,
                   wsVars, hist>>

\* process_job, lines 88-105: the except clause
Handler(w) ==
    /\ pc[w] = "handler"
    /\ jobrec' = set_job_progress(
                     set_job_status(jobrec, JobId(w), "error", Nil, exc[w]),
                     JobId(w), error_progress(w))
    /\ inbox' = Publish(inbox, JobId(w), error_progress(w))
    /\ hist' = Emitted(hist, JobId(w), error_progress(w))
    /\ exc' = [exc EXCEPT ![w] = ""]
    /\ pc' = [pc EXCEPT ![w] = "release"]
    /\ UNCHANGED <<now, queue, lock, progress_keys, storeVars, apiVars, workers_on, app,
                   wjob, cr, spc, sjob, sent, late>>

\* process_job, lines 106-107: the finally clause; an exception that was not
\* handled then leaves process_job and ends main
ReleaseLock(w) ==
    /\ pc[w] = "release"
    /\ lock' = release_lock(lock, LockKey(w))
    /\ pc' = [pc EXCEPT ![w] = IF exc[w] # "" THEN "crashed" ELSE "idle"]
    /\ wjob' = [wjob EXCEPT ![w] = Nil]
    /\ cr' = [cr EXCEPT ![w] = NoCrawl]
    /\ hist' = [hist EXCEPT ![JobId(w)].released = TRUE]
    /\ UNCHANGED <<now, queue, jobrec, progress_keys, storeVars, apiVars, workers_on, app,
                   exc, wsVars>>

\* time passes; Redis drops the keys whose expiry has come
Tick ==
    /\ now + TickLen <= MaxTime
    /\ now' = now + TickLen
    /\ lock' = [k \in DOMAIN lock |-> IF lock[k] <= now' THEN 0 ELSE lock[k]]
    /\ UNCHANGED <<queue, jobrec, progress_keys, storeVars, apiVars, workerVars, app,
                   wsVars, hist>>

(***************************************************************************)
(* Streaming endpoint (ws.py)                                              *)
(***************************************************************************)
Terminal(progress) == progress.percent >= 10000 \/ progress.status \in {"done", "error"}

\* ws_deep_scrape_progress, lines 29-42: accept, read job_progress:{job_id},
\* send it when there is one and close on a terminal one
WsConnect(s, j) ==
    /\ spc[s] = "new"
    /\ sjob' = [sjob EXCEPT ![s] = j]
    /\ late' = [late EXCEPT ![s] = hist[j].returned
                                    /\ (\A w \in Workers : wjob[w] = Nil \/ wjob[w].job_id # j)]
    /\ LET progress == progress_keys[j]
       IN IF progress # Nil
          THEN /\ sent' = [sent EXCEPT ![s] = Append(@, progress)]
               /\ spc' = [spc EXCEPT ![s] = IF Terminal(progress) THEN "closed"
                                            ELSE "subscribing"]
          ELSE /\ sent' = sent
               /\ spc' = [spc EXCEPT ![s] = "subscribing"]
    /\ UNCHANGED <<now, redisVars, storeVars, apiVars, workerVars, app, inbox, hist>>

\* redis_subscribe, lines 13-15
WsSubscribe(s) ==
    /\ spc[s] = "subscribing"
    /\ spc' = [spc EXCEPT ![s] = "listening"]
    /\ UNCHANGED <<now, redisVars, storeVars, apiVars, workerVars, app, sjob, inbox, sent,
                   late, hist>>

\* redis_subscribe, lines 17-21 and ws_deep_scrape_progress, lines 44-47
WsReceive(s) ==
    /\ spc[s] = "listening"
    /\ inbox[s] # <<>>
    /\ LET m == Head(inbox[s])
       IN IF m.job_id = sjob[s]
          THEN /\ sent' = [sent EXCEPT ![s] = Append(@, m.progress)]
               /\ spc' = [spc EXCEPT ![s] = IF Terminal(m.progress) THEN "closed"
                                            ELSE "listening"]
               /\ inbox' = [inbox EXCEPT ![s] = IF Terminal(m.progress) THEN <<>>
                                                ELSE Tail(@)]
          ELSE /\ sent' = sent
               /\ spc' = spc
               /\ inbox' = [inbox EXCEPT ![s] = Tail(@)]
    /\ UNCHANGED <<now, redisVars, storeVars, apiVars, workerVars, app, sjob, late, hist>>

(***************************************************************************)
(* Failures of Redis and of the store tiers                                *)
(***************************************************************************)
REDIS_ERROR == "redis connection error"

\* process_job, line 33: the write raises before the try block is entered;
\* the exception leaves process_job and asyncio.run, and main ends
SetRunningFails(w) ==
    /\ pc[w] = "set_running"
    /\ exc' = [exc EXCEPT ![w] = REDIS_ERROR]
    /\ pc' = [pc EXCEPT ![w] = "crashed"]
    /\ UNCHANGED <<now, redisVars, storeVars, apiVars, workers_on, app, wjob, cr, wsVars,
                   hist>>

\* a write of lines 71-87 (set_job_status done, set_job_progress) or
\* browser.close() raises inside the try block
AfterCrawlFails(w) ==
    /\ pc[w] \in {"set_done", "final_progress", "close"}
    /\ exc' = [exc EXCEPT ![w] = REDIS_ERROR]
    /\ pc' = [pc EXCEPT ![w] = "handler"]
    /\ hist' = [hist EXCEPT ![JobId(w)].raised = REDIS_ERROR]
    /\ UNCHANGED <<now, redisVars, storeVars, apiVars, workers_on, app, wjob, cr, wsVars>>

\* lines 672-682: the progress callback raises at the end of a level, outside
\* the try of the page loop
LevelEndFails(w) ==
    /\ pc[w] = "level_end"
    /\ exc' = [exc EXCEPT ![w] = REDIS_ERROR]
    /\ pc' = [pc EXCEPT ![w] = "handler"]
    /\ hist' = [hist EXCEPT ![JobId(w)].raised = REDIS_ERROR]
    /\ UNCHANGED <<now, redisVars, storeVars, apiVars, workers_on, app, wjob, cr, wsVars>>

\* process_job, line 90: set_job_status raises inside the except clause; the
\* finally clause runs and the new exception leaves process_job
HandlerFails(w) ==
    /\ pc[w] = "handler"
    /\ exc' = [exc EXCEPT ![w] = REDIS_ERROR]
    /\ pc' = [pc EXCEPT ![w] = "release"]
    /\ UNCHANGED <<now, redisVars, storeVars, apiVars, workers_on, app, wjob, cr, wsVars,
                   hist>>

TierFaults == {<<FALSE, TRUE>>, <<TRUE, FALSE>>, <<FALSE, FALSE>>}

\* a tier rejects the write of deep_scrape's store_result
DsStoreFault(w, f) == DsStoreWith(w, f[1], f[2])

\* a tier rejects the write of the worker's store_result
WStoreFault(w, f) == WStoreWith(w, f[1], f[2])

(***************************************************************************)
(* Direct calls on the result store                                        *)
(***************************************************************************)
V1 == [keys |-> "str", total_pages |-> 1]
V2 == [keys |-> "int", total_pages |-> 2]

StoreValues == {V1, V2, EmptyDict}
StoreKeys == {make_key(UA), make_key(UC)}

\* store_result(key, v)
StoreCall(key, v, kvOut, fileOk) ==
    /\ LET st == StoreResultSteps(cache_cfg, Tiers, key, v, kvOut, fileOk)
       IN /\ kv' = st.kv
          /\ files' = st.files
          /\ calls' = [key |-> key, v |-> v, ret |-> st.ret, kvOut |-> kvOut,
                       fileOk |-> fileOk, wiped |-> FALSE, loaded |-> FALSE,
                       got |-> Nil, ex |-> "",
                       op |-> "store", held |-> {}, expired |-> {}, count |-> 0,
                       fread |-> FALSE, fwrote |-> FALSE]
    /\ UNCHANGED <<now, redisVars, cache_cfg, apiVars, workerVars, app, wsVars, hist>>

\* load_result(key)
LoadCall(key, kvOk) ==
    /\ LET r == LoadResult(cache_cfg, Tiers, key, kvOk)
       IN /\ kv' = r.kv
          /\ files' = r.files
          /\ calls' = IF key = calls.key
                      THEN [calls EXCEPT !.loaded = TRUE, !.got = r.val]
                      ELSE calls
    /\ UNCHANGED <<now, redisVars, cache_cfg, apiVars, workerVars, app, wsVars, hist>>

\* exists(key)
ExistsCall(key, kvOk) ==
    /\ calls' = IF key = calls.key
                THEN [calls EXCEPT !.ex = IF Exists(cache_cfg, Tiers, key, kvOk)
                                          THEN "True" ELSE "False"]
                ELSE calls
    /\ UNCHANGED <<now, redisVars, kv, files, cache_cfg, apiVars, workerVars, app, wsVars,
                   hist>>

\* delete_result(key)
DeleteCall(key, kvOk) ==
    /\ LET d == DeleteResult(cache_cfg, Tiers, key, kvOk, TRUE)
       IN /\ kv' = d.kv
          /\ files' = d.files
    /\ calls' = IF key = calls.key THEN NoCall ELSE calls
    /\ UNCHANGED <<now, redisVars, cache_cfg, apiVars, workerVars, app, wsVars, hist>>

\* every entry of the Redis tier is removed (FLUSHDB, restart without
\* persistence)
WipeKv ==
    /\ kv' = [k \in DOMAIN kv |-> Nil]
    /\ calls' = [calls EXCEPT !.wiped = TRUE]
    /\ UNCHANGED <<now, redisVars, files, cache_cfg, apiVars, workerVars, app, wsVars, hist>>

\* the tiers that hold an entry under the key
HeldIn(key) == {t \in {"kv", "file"} : IF t = "kv" THEN kv[key] # Nil
                                       ELSE files[key] # Nil}

\* delete_result(key), with what it returned and which tiers held the key
DeleteReturn(key, kvOk, fileOk) ==
    /\ LET d == DeleteResult(cache_cfg, Tiers, key, kvOk, fileOk)
       IN /\ kv' = d.kv
          /\ files' = d.files
          /\ calls' = [NoCall EXCEPT !.op = "delete", !.key = key,
                                     !.ret = IF d.ret THEN "True" ELSE "False",
                                     !.kvOut = IF kvOk THEN "ok" ELSE "fails",
                                     !.fileOk = fileOk, !.held = HeldIn(key),
                                     !.v = files[key]]
    /\ UNCHANGED <<now, redisVars, cache_cfg, apiVars, workerVars, app, wsVars, hist>>

\* load_result(key), with what it returned, which tiers held the key and
\* which calls it made on the file tier
LoadReturn(key, kvOk) ==
    /\ LET r == LoadResult(cache_cfg, Tiers, key, kvOk)
       IN /\ kv' = r.kv
          /\ files' = r.files
          /\ calls' = [NoCall EXCEPT !.op = "load", !.key = key, !.got = r.val,
                                     !.kvOut = IF kvOk THEN "ok" ELSE "fails",
                                     !.held = HeldIn(key), !.v = files[key],
                                     !.fread = r.fread, !.fwrote = r.fwrote]
    /\ UNCHANGED <<now, redisVars, cache_cfg, apiVars, workerVars, app, wsVars, hist>>

\* cleanup_expired(), called when the file entries in expired are past
\* their TTL
CleanupCall(expired, kvOk, fileOk) ==
    /\ expired \subseteq {k \in DOMAIN files : files[k] # Nil}
    /\ LET c == CleanupExpired(cache_cfg, Tiers, expired, kvOk, fileOk)
       IN /\ files' = c.files
          /\ calls' = [NoCall EXCEPT !.op = "cleanup", !.count = c.ret,
                                     !.kvOut = IF kvOk THEN "ok" ELSE "fails",
                                     !.fileOk = fileOk, !.expired = expired,
                                     !.held = {k \in DOMAIN kv : kv[k] # Nil}]
    /\ UNCHANGED <<now, redisVars, kv, cache_cfg, apiVars, workerVars, app, wsVars, hist>>

(***************************************************************************)
(* GET /api/deep-scrape: deep_scrape called by the API process              *)
(***************************************************************************)
\* request.url of the API call: the seed and the crawl parameters are in the
\* query string
ApiUrl(body) ==
    Url("http", <<"api">>, <<"/", "api", "/", "deep-scrape">>,
        <<QP(<<"url">>, body.url), QP(<<"depth">>, body.depth),
          QP(<<"max_urls_per_level">>, body.max_urls_per_level)>>, "")

\* lines 522-525: r_id = redis_cache.make_key(full_path)
SyncKey(body) == make_key(FullPath(ApiUrl(body)))

Conn(c) == app.conn[c]

SetConn(c, rec) == [app EXCEPT !.conn[c] = rec]

\* asyncio.Semaphore.acquire without waiting: a free slot is taken
sem_acquire(a) == [a EXCEPT !.sem = @ - 1]

\* a with block that keeps its slot when it is left
sem_keep(a) == a

\* asyncio.Semaphore.release
sem_release(a) == [a EXCEPT !.sem = @ + 1]

\* lines 522-529: the cache lookup; a truthy hit is returned at once
SyncCheck(c) ==
    /\ Conn(c).pc = "new"
    /\ LET body == Conn(c).body
           r == IF body.cache
                THEN LoadResult(cache_cfg, Tiers, SyncKey(body), TRUE)
                ELSE [val |-> Nil, kv |-> kv, files |-> files]
       IN /\ kv' = r.kv
          /\ files' = r.files
          /\ app' = SetConn(c, [Conn(c) EXCEPT
                        !.pc = IF DictTruthy(r.val) THEN "cached" ELSE "wait"])
    /\ UNCHANGED <<now, redisVars, cache_cfg, calls, apiVars, workerVars, wsVars, hist>>

\* line 550: async with semaphore, entered when a slot is free
SyncAcquire(c) ==
    /\ Conn(c).pc = "wait"
    /\ app.sem > 0
    /\ app' = sem_acquire(SetConn(c, [Conn(c) EXCEPT
                  !.pc = "collect",
                  !.took = @ + 1,
                  !.cr = [NewCrawl(Conn(c).body.url) EXCEPT
                             !.r_id = SyncKey(Conn(c).body)]]))
    /\ UNCHANGED <<now, redisVars, storeVars, apiVars, workerVars, wsVars, hist>>

\* lines 551-572; when the loop ends the with block is left and the slot
\* released
SyncCollect(c) ==
    /\ Conn(c).pc = "collect"
    /\ LET k == Conn(c).cr
           body == Conn(c).body
           d == Drain(k.url_queue, k.current_level, k.visited, <<>>)
           batch == LimitUrls(d.level_urls, body.max_urls_per_level)
       IN IF k.url_queue # <<>> /\ k.current_level < body.depth /\ d.level_urls # <<>>
          THEN app' = SetConn(c, [Conn(c) EXCEPT
                         !.pc = "page",
                         !.cr = [k EXCEPT !.url_queue = d.url_queue,
                                          !.visited = d.visited,
                                          !.level_urls = batch,
                                          !.i = 0, !.pages = <<>>]])
          ELSE app' = sem_release(SetConn(c, [Conn(c) EXCEPT !.pc = "store",
                                                             !.gave = @ + 1]))
    /\ UNCHANGED <<now, redisVars, storeVars, apiVars, workerVars, wsVars, hist>>

\* lines 574-666, one iteration; there is no progress callback
SyncPage(c, outcome) ==
    /\ Conn(c).pc = "page"
    /\ LET k == Conn(c).cr
           body == Conn(c).body
           e == k.level_urls[k.i + 1]
           links == SubSeq(Links(e.url), 1, Min(Len(Links(e.url)), LINKS_PER_PAGE))
           q1 == IF outcome # "fail" /\ ExtractsLinks(k.current_level, body.depth)
                 THEN PushLinks(k.url_queue, links, e.url, RegisteredDomain(body.url),
                                body, k.visited,
                                [depth |-> k.current_level + 1,
                                 parent |-> Len(k.all_results)])
                 ELSE k.url_queue
           page_result == [url |-> e.url, parent_index |-> e.parent,
                           level |-> k.current_level]
       IN app' = SetConn(c, [Conn(c) EXCEPT
                    !.pc = IF k.i + 1 = Len(k.level_urls) THEN "level_end" ELSE "page",
                    !.cr = [k EXCEPT
                               !.url_queue = q1,
                               !.all_results = AppendPage(@, outcome, page_result),
                               !.pages = AppendPage(@, outcome, page_result),
                               !.i = k.i + 1]])
    /\ UNCHANGED <<now, redisVars, storeVars, apiVars, workerVars, wsVars, hist>>

\* lines 668-683
SyncLevelEnd(c) ==
    /\ Conn(c).pc = "level_end"
    /\ LET k == Conn(c).cr
       IN app' = SetConn(c, [Conn(c) EXCEPT
                    !.pc = "collect",
                    !.cr = [k EXCEPT
                               !.level_results =
                                   IF k.pages # <<>>
                                   THEN Append(@, [level |-> k.current_level,
                                                   pages |-> k.pages])
                                   ELSE @,
                               !.current_level = @ + 1]])
    /\ UNCHANGED <<now, redisVars, storeVars, apiVars, workerVars, wsVars, hist>>

\* lines 685-711: the result is stored and returned
SyncStore(c) ==
    /\ Conn(c).pc = "store"
    /\ LET k == Conn(c).cr
           result == CrawlResult(k, Conn(c).body.url)
           st == StoreResult(cache_cfg, Tiers, k.r_id, result, TRUE, TRUE)
       IN /\ kv' = st.kv
          /\ files' = st.files
          /\ app' = SetConn(c, [Conn(c) EXCEPT !.pc = "returned",
                                               !.cr = [k EXCEPT !.result = result]])
    /\ UNCHANGED <<now, redisVars, cache_cfg, calls, apiVars, workerVars, wsVars, hist>>

\* the request's task is cancelled (the client went away) at an await:
\* CancelledError is not an Exception, so it passes the except of line 664
\* and leaves the with block, which releases the slot; a task cancelled
\* while it waits for the semaphore has no slot
SyncCancel(c) ==
    /\ Conn(c).pc \in {"wait", "page"}
    /\ app' = IF Conn(c).pc = "page"
              THEN sem_release(SetConn(c, [Conn(c) EXCEPT !.pc = "cancelled",
                                                          !.gave = @ + 1]))
              ELSE SetConn(c, [Conn(c) EXCEPT !.pc = "cancelled"])
    /\ UNCHANGED <<now, redisVars, storeVars, apiVars, workerVars, wsVars, hist>>

\* the process is started again, possibly in another migration phase; both
\* tiers keep their entries
Restart(cfg) ==
    /\ cache_cfg' = cfg
    /\ calls' = NoCall
    /\ UNCHANGED <<now, redisVars, kv, files, apiVars, workerVars, app, wsVars, hist>>

(***************************************************************************)
(* Specifications                                                          *)
(***************************************************************************)
\* the requests of the job-system specification: two requests for the same
\* normalized URL and one for another site
SpecReqs ==
    {[j \in Jobs |-> CASE j = "j1" -> Body(UA, 1, 1)
                       [] j = "j2" -> Body(UB, 1, 1)
                       [] OTHER -> Nil]}

Init == InitWith(SpecReqs, Workers, {[redis_enabled |-> TRUE, phase |-> 1]}, {})

Next ==
    \/ \E j \in Jobs : AsyncCheck(j)
    \/ \E j \in Jobs : EnqueueSet(j)
    \/ \E j \in Jobs : EnqueuePush(j)
    \/ \E w \in Workers : DequeuePop(w)
    \/ \E w \in Workers : DequeueGet(w)
    \/ \E w \in Workers : AcquireLock(w)
    \/ \E w \in Workers : SetSkipped(w)
    \/ \E w \in Workers : SetRunning(w)
    \/ \E w \in Workers : Launch(w)
    \/ \E w \in Workers : LaunchFails(w)
    \/ \E w \in Workers : Collect(w)
    \/ \E w \in Workers, o \in PageOutcomes : PageStep(w, o)
    \/ \E w \in Workers : LevelEnd(w)
    \/ \E w \in Workers : DsStore(w)
    \/ \E w \in Workers : WStore(w)
    \/ \E w \in Workers : SetDone(w)
    \/ \E w \in Workers : FinalProgress(w)
    \/ \E w \in Workers : BrowserClose(w)
    \/ \E w \in Workers : Handler(w)
    \/ \E w \in Workers : ReleaseLock(w)
    \/ Tick

Spec == Init /\ [][Next]_vars

\* one crawl driven by one worker, for every depth and fan-out cap
CrawlReqs ==
    {[j \in Jobs |-> IF j = "j1" THEN Body(u, d, f) ELSE Nil] :
        u \in {UA, UB, UC, UD}, d \in 1..MaxDepth, f \in 1..MaxFanout}

InitCrawl == InitWith(CrawlReqs, {"w1"}, {[redis_enabled |-> TRUE, phase |-> 1]}, {})

\* crawls with and without the domain restriction and with exclude patterns
\* in either case
LinkReqs ==
    {[j \in Jobs |-> IF j = "j1"
                     THEN [Body(u, d, MaxFanout) EXCEPT !.same_domain_only = sd,
                                                        !.exclude_patterns = ex]
                     ELSE Nil] :
        u \in {UE, UD}, d \in 2..MaxDepth, sd \in BOOLEAN, ex \in {{}, {"b"}, {"B"}}}

InitLinks == InitWith(LinkReqs, {"w1"}, {[redis_enabled |-> TRUE, phase |-> 1]}, {})

NextCrawl ==
    \/ \E j \in Jobs : AsyncCheck(j)
    \/ \E j \in Jobs : EnqueueSet(j)
    \/ \E j \in Jobs : EnqueuePush(j)
    \/ \E w \in Workers : DequeuePop(w)
    \/ \E w \in Workers : DequeueGet(w)
    \/ \E w \in Workers : AcquireLock(w)
    \/ \E w \in Workers : SetRunning(w)
    \/ \E w \in Workers : Launch(w)
    \/ \E w \in Workers : LaunchFails(w)
    \/ \E w \in Workers : Collect(w)
    \/ \E w \in Workers, o \in PageOutcomes : PageStep(w, o)
    \/ \E w \in Workers : LevelEnd(w)
    \/ \E w \in Workers : DsStore(w)
    \/ \E w \in Workers : WStore(w)
    \/ \E w \in Workers : SetDone(w)
    \/ \E w \in Workers : FinalProgress(w)
    \/ \E w \in Workers : BrowserClose(w)
    \/ \E w \in Workers : Handler(w)
    \/ \E w \in Workers : ReleaseLock(w)

SpecCrawl == InitCrawl /\ [][NextCrawl]_vars

SpecLinks == InitLinks /\ [][NextCrawl]_vars

\* the job system with failing Redis calls and store tiers: one worker and
\* the two requests for the same page, under every store configuration
InitF == InitWith(SpecReqs, {"w1"}, CacheCfgs, {})

\* exceptions raised inside the try block of process_job
NextRaise ==
    \/ NextCrawl
    \/ \E w \in Workers : AfterCrawlFails(w)
    \/ \E w \in Workers : LevelEndFails(w)
    \/ \E w \in Workers, f \in TierFaults : DsStoreFault(w, f)
    \/ \E w \in Workers, f \in TierFaults : WStoreFault(w, f)

SpecRaise == InitF /\ [][NextRaise]_vars

\* and those raised by the job-record writes outside of it
NextF ==
    \/ NextRaise
    \/ \E w \in Workers : SetRunningFails(w)
    \/ \E w \in Workers : HandlerFails(w)

SpecF == InitF /\ [][NextF]_vars

\* the result store called directly, under every start of RedisCache
StartCfgs ==
    {RedisCacheInit(e, r, ph) : e \in BOOLEAN, r \in BOOLEAN, ph \in {1, 2, 3}}

InitStore == InitWith({[j \in Jobs |-> Nil]}, {}, StartCfgs, {})

NextStore ==
    \/ \E k \in StoreKeys, v \in StoreValues, o \in KvOutcomes, f \in BOOLEAN :
          StoreCall(k, v, o, f)
    \/ \E k \in StoreKeys, b \in BOOLEAN : LoadCall(k, b)
    \/ \E k \in StoreKeys, b \in BOOLEAN : ExistsCall(k, b)
    \/ \E k \in StoreKeys, b \in BOOLEAN : DeleteCall(k, b)
    \/ WipeKv

SpecStore == InitStore /\ [][NextStore]_vars

\* synchronous requests in one API process: two for the same page and one
\* for a two-level crawl, under every semaphore capacity
SemBodies ==
    [c \in Conns |-> CASE c = "c1" -> Body(UC, 1, 1)
                       [] c = "c2" -> Body(UC, 1, 1)
                       [] OTHER -> Body(UA, 2, 1)]

SemKeys == {SyncKey(SemBodies[c]) : c \in Conns}

InitSem ==
    /\ req = [j \in Jobs |-> Nil]
    /\ now = 0
    /\ queue = <<>>
    /\ jobrec = [j \in Jobs |-> Nil]
    /\ lock = [k \in LockKeys |-> 0]
    /\ progress_keys = [j \in Jobs |-> Nil]
    /\ kv = [k \in SemKeys |-> Nil]
    /\ files = [k \in SemKeys |-> Nil]
    /\ cache_cfg = [redis_enabled |-> TRUE, phase |-> 1]
    /\ calls = NoCall
    /\ enq = [j \in Jobs |-> "none"]
    /\ workers_on = {}
    /\ \E cap \in 1..MaxSlots :
          app = [cap |-> cap, sem |-> cap,
                 conn |-> [c \in Conns |-> [NoConn EXCEPT !.pc = "new",
                                                         !.body = SemBodies[c]]]]
    /\ pc = [w \in Workers |-> "idle"]
    /\ wjob = [w \in Workers |-> Nil]
    /\ exc = [w \in Workers |-> ""]
    /\ cr = [w \in Workers |-> NoCrawl]
    /\ spc = [s \in Subs |-> "none"]
    /\ sjob = [s \in Subs |-> "j1"]
    /\ inbox = [s \in Subs |-> <<>>]
    /\ sent = [s \in Subs |-> <<>>]
    /\ late = [s \in Subs |-> FALSE]
    /\ hist = [j \in Jobs |-> NoHist]

NextSem ==
    \/ \E c \in Conns : SyncCheck(c)
    \/ \E c \in Conns : SyncAcquire(c)
    \/ \E c \in Conns : SyncCollect(c)
    \/ \E c \in Conns, o \in PageOutcomes : SyncPage(c, o)
    \/ \E c \in Conns : SyncLevelEnd(c)
    \/ \E c \in Conns : SyncStore(c)
    \/ \E c \in Conns : SyncCancel(c)

SpecSem == InitSem /\ [][NextSem]_vars

\* delete_result and cleanup_expired on a store filled by store_result
NextSweep ==
    \/ \E k \in StoreKeys, v \in {V1, V2}, o \in KvOutcomes, f \in BOOLEAN :
          StoreCall(k, v, o, f)
    \/ \E k \in StoreKeys, b \in BOOLEAN, f \in BOOLEAN : DeleteReturn(k, b, f)
    \/ \E k \in StoreKeys, b \in BOOLEAN : LoadReturn(k, b)
    \/ \E e \in SUBSET StoreKeys, b \in BOOLEAN, f \in BOOLEAN : CleanupCall(e, b, f)
    \/ \E cfg \in StartCfgs : Restart(cfg)

SpecSweep == InitStore /\ [][NextSweep]_vars

\* fingerprints and lock keys of URLs that differ in what normalize_url
\* removes: a base URL and one variant of it, requested together
NormBases ==
    {Url("https", <<"site", ".", "com">>, <<"/", "x">>,
         <<QP(<<"id">>, "1"), QP(<<"q">>, "a%20b")>>, ""),
     Url("https", <<"site", ".", "com">>, <<"/">>, <<QP(<<"id">>, "1")>>, "")}

Trackers == ignore_params \cup {<<"utm_", "custom">>}

InsertAt(q, n, p) == SubSeq(q, 1, n) \o <<p>> \o SubSeq(q, n + 1, Len(q))

QueryVariants(q) ==
    {q} \cup {InsertAt(q, n, QP(t, "g")) : n \in 0..Len(q), t \in Trackers}
        \cup {InsertAt(InsertAt(q, Len(q), QP(t, "")), 0, QP(<<"ref">>, "g")) :
                 t \in Trackers}

HostVariants(h) ==
    {h, [h EXCEPT ![1] = "Site"], [h EXCEPT ![1] = "Site", ![3] = "COM"]}

PathVariants(path) == IF path = <<"/">> THEN {path} ELSE {path, path \o <<"/">>}

Variants(b) ==
    {Url(b.scheme, h, pa, q, f) :
        h \in HostVariants(b.netloc), pa \in PathVariants(b.path),
        q \in QueryVariants(b.query), f \in {"", "top"}}

NormReqs ==
    UNION {{[j \in Jobs |-> IF j = "j1" THEN Body(b, 1, 1)
                            ELSE IF j = "j2" THEN Body(v, 1, 1) ELSE Nil] :
               v \in Variants(b)} : b \in NormBases}

InitNorm == InitWith(NormReqs, Workers, {[redis_enabled |-> TRUE, phase |-> 1]}, {})

NextNorm ==
    \/ \E j \in Jobs : AsyncCheck(j)
    \/ \E j \in Jobs : EnqueueSet(j)
    \/ \E j \in Jobs : EnqueuePush(j)
    \/ \E w \in Workers : DequeuePop(w)
    \/ \E w \in Workers : DequeueGet(w)
    \/ \E w \in Workers : AcquireLock(w)
    \/ \E w \in Workers : SetSkipped(w)

SpecNorm == InitNorm /\ [][NextNorm]_vars

\* a URL requested together with its normalized form, for every shape of
\* path: none, the root, slashes alone, one and several trailing slashes
IdemUrls ==
    {Url("https", h, pa, q, f) :
        h \in {<<"site", ".", "com">>, <<"Site", ".", "com">>},
        pa \in {<<>>, <<"/">>, <<"/", "/">>, <<"/", "/", "/">>, <<"/", "x">>,
                <<"/", "x", "/">>, <<"/", "x", "/", "/">>},
        q \in {<<>>, <<QP(<<"id">>, "1"), QP(<<"q">>, "a%20b")>>,
               <<QP(<<"utm_", "source">>, "g"), QP(<<"id">>, "1")>>},
        f \in {"", "top"}}

IdemReqs ==
    {[j \in Jobs |-> IF j = "j1" THEN Body(u, 1, 1)
                     ELSE IF j = "j2" THEN Body(normalize_url(u), 1, 1) ELSE Nil] :
        u \in IdemUrls}

InitIdem == InitWith(IdemReqs, Workers, {[redis_enabled |-> TRUE, phase |-> 1]}, {})

SpecIdem == InitIdem /\ [][NextNorm]_vars

\* two requests for one URL with different depths, served by one worker
CacheReqs ==
    {[j \in Jobs |-> IF j = "j1" THEN Body(UA, d, 1)
                     ELSE IF j = "j2" THEN Body(UA, 3 - d, 1) ELSE Nil] :
        d \in {1, 2}}

InitCache == InitWith(CacheReqs, {"w1"}, {[redis_enabled |-> TRUE, phase |-> 1]}, {})

SpecCache == InitCache /\ [][NextCrawl]_vars

\* one crawl and the streaming connections that follow it
StreamReqs == {[j \in Jobs |-> IF j = "j1" THEN Body(UA, 1, 1) ELSE Nil]}

InitStream ==
    InitWith(StreamReqs, {"w1"}, {[redis_enabled |-> TRUE, phase |-> 1]}, Subs)

NextStream ==
    \/ NextCrawl
    \/ \E s \in Subs, j \in Jobs : WsConnect(s, j)
    \/ \E s \in Subs : WsSubscribe(s)
    \/ \E s \in Subs : WsReceive(s)

SpecStream == InitStream /\ [][NextStream]_vars

(***************************************************************************)
(* Properties                                                              *)
(***************************************************************************)
\* the positions of process_job between a successful acquire_lock and the
\* return of release_lock
HoldingPcs ==
    {"set_running", "launch", "collect", "page", "level_end", "ds_store", "w_store",
     "set_done", "final_progress", "close", "handler", "release"}

Holding(w) == pc[w] \in HoldingPcs

Holders(k) == {w \in Workers : Holding(w) /\ LockKey(w) = k}

Requested == {j \in Jobs : req[j] # Nil}

SameUrl(a, b) == a # b /\ normalize_url(req[a].url) = normalize_url(req[b].url)

Processing(j) == \E w \in Workers : wjob[w] # Nil /\ JobId(w) = j

\* process_job has run for j and has ended
Finished(j) == hist[j].returned /\ ~Processing(j)

Status(j) == IF jobrec[j] = Nil THEN "absent" ELSE jobrec[j].status

\* C1: while a lock entry for a normalized URL is live, at most one worker
\* has acquired the lock for that URL and not yet released it.
C1_UniqueHolder ==
    \A k \in LockKeys : LockLive(k) => Cardinality(Holders(k)) <= 1

DoneWithResult(j) == Status(j) = "done" /\ jobrec[j].result_id # Nil

SkippedConcurrent(j) == Status(j) = "skipped" /\ jobrec[j].error = SKIPPED_ERROR

NoRaise(j) == hist[j].raised = ""

C3_WitnessBothDone ==
    \E a, b \in Requested :
        /\ SameUrl(a, b) /\ Finished(a) /\ Finished(b)
        /\ DoneWithResult(a) /\ DoneWithResult(b)

\* what holds of a job whose acquire_lock call failed
C4_State ==
    \A j \in Requested :
        hist[j].lockFailed =>
            /\ ~hist[j].running
            /\ Status(j) \in {"pending", "skipped"}
            /\ hist[j].rendered = 0 /\ hist[j].stores = 0
            /\ hist[j].prog = <<>> /\ hist[j].pub = <<>>
            /\ jobrec[j].progress = Nil
            /\ Finished(j) => Status(j) = "skipped" /\ Truthy(jobrec[j].error)

\* the steps process_job takes after a failed acquire_lock
C4_Step ==
    \A w \in Workers :
        (\/ pc[w] = "acquire" /\ pc'[w] = "set_skipped"
         \/ pc[w] = "set_skipped" /\ pc'[w] = "idle")
        => lock' = lock /\ kv' = kv /\ files' = files /\ inbox' = inbox

\* C4: a job whose acquire_lock failed is never set to running, has no page
\* rendered, no store write and no progress snapshot; once process_job has
\* returned it is skipped with a non-empty error; and the steps of that
\* process_job leave every lock entry, store entry and topic as they were.
C4_SkippedOnLockFailure == [](C4_State) /\ [][C4_Step]_vars

C4_Witness ==
    \E j \in Requested, k \in LockKeys :
        hist[j].lockFailed /\ Finished(j) /\ Status(j) = "skipped" /\ LockLive(k)

\* the except clause of process_job has run for an exception raised for j
Handled(j) ==
    /\ hist[j].raised # ""
    /\ \A w \in Workers : wjob[w] # Nil /\ JobId(w) = j => pc[w] = "release"

IsErrorSnapshot(p) == p # Nil /\ p.percent = 10000 /\ p.status = "error"

C10_FifoReturn ==
    \A a, b \in Requested :
        a \in hist[b].enqPrior /\ hist[b].returned => a \in hist[b].retPrior

\* C10, amended: if enqueue_job(a) completed before enqueue_job(b) started,
\* the id of b is not popped from the list unless the id of a was popped
\* before; the dequeue_job calls that popped them may return in either order.
C10_FifoPop ==
    \A a, b \in Requested :
        a \in hist[b].enqPrior /\ hist[b].popped => a \in hist[b].popPrior

C10_Witness ==
    \E a, b \in Requested :
        /\ a \in hist[b].enqPrior /\ hist[b].popped /\ a \in hist[b].popPrior
        /\ hist[a].by # "" /\ hist[b].by # "" /\ hist[a].by # hist[b].by

Acquired(j) == hist[j].acquired
Released(j) == hist[j].released

\* the process_job that ran for j has ended, by returning or by an exception
Ended(j) ==
    /\ hist[j].returned
    /\ \A w \in Workers : wjob[w] # Nil /\ JobId(w) = j => pc[w] = "crashed"

\* C5: a process_job that acquired the lock has called release_lock by the
\* time it ends, whether it returns or an exception leaves it.
C5_ReleasedAtEnd == \A j \in Requested : Acquired(j) /\ Ended(j) => Released(j)

\* load_result(result_id) as a reader sees it
Loaded(key) == LoadResult(cache_cfg, Tiers, key, TRUE).val

\* C6: a job record at status done has a result_id under which load_result
\* returns a crawl result with that id.
C6_DoneHasResult ==
    \A j \in Requested :
        Status(j) = "done" =>
            /\ jobrec[j].result_id # Nil
            /\ Loaded(jobrec[j].result_id) # Nil
            /\ Loaded(jobrec[j].result_id).id = jobrec[j].result_id

Percents(snaps) == [n \in 1..Len(snaps) |-> snaps[n].percent]

Monotone(ps) ==
    /\ \A n \in 1..Len(ps) : 0 <= ps[n] /\ ps[n] <= 10000
    /\ \A n \in 2..Len(ps) : ps[n - 1] <= ps[n]

\* C8: the percents of the snapshots saved on a job record, and of those
\* published for it, lie in [0, 100] and never decrease, and once process_job
\* has ended for a job that was set to running the last one is 100.
C8_PercentMonotone ==
    \A j \in Requested :
        /\ Monotone(Percents(hist[j].prog))
        /\ Monotone(Percents(hist[j].pub))
        /\ hist[j].running /\ Finished(j) =>
              /\ hist[j].prog # <<>> /\ hist[j].pub # <<>>
              /\ hist[j].prog[Len(hist[j].prog)].percent = 10000
              /\ hist[j].pub[Len(hist[j].pub)].percent = 10000
              /\ jobrec[j].progress = hist[j].prog[Len(hist[j].prog)]

PageSnaps(snaps) == {n \in 1..Len(snaps) : snaps[n].current_page > 0}

\* a crawl asked for three levels that passed over a page, ran out of links
\* before the third level and ended at done: its percents rose and the last
\* one before the final snapshot is below 100
C8_Witness ==
    \E j \in Requested :
        /\ Finished(j) /\ Status(j) = "done" /\ hist[j].running
        /\ req[j].depth = 3
        /\ Cardinality(PageSnaps(hist[j].prog)) < hist[j].rendered
        /\ Len(hist[j].prog) >= 4
        /\ hist[j].prog[Len(hist[j].prog) - 1].percent < 10000
        /\ \E n \in 2..Len(hist[j].prog) :
              /\ hist[j].prog[n - 1].percent < hist[j].prog[n].percent
              /\ hist[j].prog[n].percent < 10000

\* C9: a connection opened for a job whose process_job has ended is sent the
\* terminal snapshot saved on the job record and is closed, as part of
\* connecting.
C9_LateSubscriber ==
    \A s \in Subs :
        late[s] /\ spc[s] # "new" /\ get_job_progress(jobrec, sjob[s]) # Nil =>
            /\ spc[s] = "closed"
            /\ sent[s] = <<get_job_progress(jobrec, sjob[s])>>

InQueue(j) == Cardinality({n \in 1..Len(queue) : queue[n] = j})

\* a pushed id is on the list once or was popped; one worker at most has it
C11_State ==
    \A j \in Jobs :
        /\ enq[j] = "pushed" => InQueue(j) + (IF hist[j].popped THEN 1 ELSE 0) = 1
        /\ enq[j] # "pushed" => InQueue(j) = 0 /\ ~hist[j].popped
        /\ Cardinality({w \in Workers : wjob[w] # Nil /\ JobId(w) = j}) <= 1
        /\ hist[j].returned => hist[j].popped /\ hist[j].by \in Workers
        /\ hist[j].running => hist[j].returned

\* the pop, the return and the move to running happen to a job that has not
\* been popped, returned or set to running before
C11_Step ==
    \A w \in Workers :
        /\ pc[w] = "idle" /\ pc'[w] = "deq_get" => ~hist[wjob'[w].job_id].popped
        /\ pc[w] = "deq_get" /\ pc'[w] = "acquire" => ~hist[wjob[w].job_id].returned
        /\ pc[w] = "set_running" /\ pc'[w] = "launch" => ~hist[JobId(w)].running

\* C11: with several workers in dequeue_job, every pushed job id is popped
\* once and returned to one worker once, and no job is set to running twice.
C11_DeliveredOnce == [](C11_State) /\ [][C11_Step]_vars

\* both jobs were returned, to different workers, and one of them ran
C11_Witness ==
    \E a, b \in Requested :
        /\ a # b /\ hist[a].returned /\ hist[b].returned
        /\ hist[a].by # hist[b].by
        /\ hist[a].running /\ queue = <<>>

\* the tiers that took the last store_result call
KvAccepted == RedisOn(cache_cfg) /\ calls.kvOut = "ok"
FileAccepted == cache_cfg.phase <= 2 /\ calls.fileOk
Stored == calls.ret = "True"

\* C12: in phases 1 and 2, after store_result(k, v) returned True, exists(k)
\* is true and load_result(k) is v, also after the Redis tier was emptied.
C12_FileFallback ==
    Stored /\ cache_cfg.phase <= 2 =>
        /\ Exists(cache_cfg, Tiers, calls.key, TRUE)
        /\ LoadResult(cache_cfg, Tiers, calls.key, TRUE).val = calls.v

\* C13: in every phase, load_result(k) after a store_result(k, v) that
\* returned True, with no store, delete or removal of k in between, is v.
C13_LoadAfterStore ==
    Stored /\ ~calls.wiped =>
        /\ LoadResult(cache_cfg, Tiers, calls.key, TRUE).val = calls.v
        /\ calls.loaded => calls.got = calls.v

\* C14: store_result returns True exactly when a tier accepted the write; in
\* phases 1 and 2 a file write that succeeds is kept and gives True, and the
\* call raises only when neither write succeeded; in phase 3 no file is
\* written and a failed Redis write gives False.
C14_StoreReturn ==
    calls.ret # "" =>
        /\ calls.ret = "True" <=> KvAccepted \/ FileAccepted
        /\ calls.ret = "raise" <=> cache_cfg.phase <= 2 /\ ~KvAccepted /\ ~calls.fileOk
        /\ calls.ret = "False" <=> cache_cfg.phase = 3 /\ ~KvAccepted
        /\ FileAccepted => files[calls.key] = Json(calls.v)
        /\ cache_cfg.phase = 3 => \A k \in ResultKeys : files[k] = Nil

\* a store that Redis refused and the file tier took, with Redis enabled
C14_Witness ==
    /\ calls.ret = "True" /\ cache_cfg.redis_enabled
    /\ calls.kvOut = "hset_fails" /\ calls.fileOk
    /\ kv[calls.key] = Nil /\ files[calls.key] = Json(calls.v)

\* Redis could not be reached by the last store_result call
KvUnreachable == ~cache_cfg.redis_enabled \/ calls.kvOut = "hset_fails"

\* C15: with Redis unreachable (from the start or during the call) and the
\* file write sound, store_result persists the value without raising and a
\* later load_result returns it, whatever phase is configured.
C15_FileOnlyDegrade ==
    calls.ret # "" /\ KvUnreachable /\ calls.fileOk =>
        /\ calls.ret = "True"
        /\ LoadResult(cache_cfg, Tiers, calls.key, FALSE).val = calls.v

Keys(q) == [n \in 1..Len(q) |-> q[n].k]

\* C16: a URL and a variant of it that differs in tracking parameters, the
\* fragment, the case of the host or a trailing slash on a non-root path have
\* the same normalize_url value, in which the other parameters keep their
\* order, and the same make_key fingerprint; so they contend for one lock.
C16_VariantsCollide ==
    LET b == req["j1"].url
        v == req["j2"].url
    IN /\ normalize_url(v) = normalize_url(b)
       /\ Keys(normalize_url(v).query) = Keys(b.query)
       /\ make_key(v) = make_key(b)
       /\ Cardinality({w \in Workers : pc[w] = "set_running"}) <= 1
       /\ \A k \in DOMAIN lock : lock[k] # 0 => k = normalize_url(b)

\* the job of a variant with another host case, a trailing slash, a fragment
\* and a utm_ key found the lock of the base URL taken
C16_Witness ==
    LET b == req["j1"].url
        v == req["j2"].url
    IN /\ hist["j1"].acquired /\ hist["j2"].lockFailed /\ Finished("j2")
       /\ v.netloc # b.netloc /\ v.path # b.path /\ v.fragment # ""
       /\ \E n \in 1..Len(v.query) : v.query[n].k = <<"utm_", "custom">>

\* the fingerprint deep_scrape_async computes for the request of j
Fingerprint(j) == make_key(req[j].url)

\* C17: every stored crawl result is under the key that is its id, the
\* result_id of a done job is the fingerprint the async endpoint computes for
\* its seed URL, and jobs for different URLs get different result ids.
C17_ResultIdIsFingerprint ==
    /\ \A k \in DOMAIN kv : kv[k] # Nil => kv[k].id = k
    /\ \A k \in DOMAIN files : files[k] # Nil => files[k].id = k
    /\ \A j \in Requested : Status(j) = "done" => jobrec[j].result_id = Fingerprint(j)
    /\ \A a, b \in Requested :
          /\ Status(a) = "done" /\ Status(b) = "done"
          /\ normalize_url(req[a].url) # normalize_url(req[b].url)
          => jobrec[a].result_id # jobrec[b].result_id

\* a crawl of the same normalized URL as that of j is done and stored
StoredFor(j) ==
    \E a \in Requested :
        /\ a # j /\ normalize_url(req[a].url) = normalize_url(req[j].url)
        /\ Status(a) = "done" /\ hist[a].stores > 0

\* deep_scrape's cache lookup for a job whose URL has a stored crawl
C18_Step ==
    \A w \in Workers :
        /\ pc[w] = "launch" /\ pc'[w] \in {"collect", "w_store"}
        /\ Params(w).cache /\ StoredFor(JobId(w))
        => pc'[w] = "w_store"

\* C18: once a crawl of u is stored, a request with the cache flag for a URL
\* that differs from u in tracking parameters, fragment, host case or
\* trailing slash is answered from the store and renders no page.
C18_VariantServedFromStore == [][C18_Step]_vars

\* deep_scrape_async's cache lookup and what follows it
C19_Step ==
    \A j \in Jobs :
        enq[j] = "new" /\ enq'[j] # "new" =>
            /\ StoredFor(j) =>
                  /\ enq'[j] = "cached"
                  /\ jobrec'[j] = Nil /\ queue' = queue
            /\ (\A k \in DOMAIN kv : kv[k] = Nil /\ files[k] = Nil) =>
                  enq'[j] = "miss"

\* C19: after a crawl of a URL is stored, an async enqueue request for that
\* URL is answered from_cache, with no job record and no push; with nothing
\* stored it goes on to make its pending job record and push its id.
C19_EnqueueServedFromStore == [][C19_Step]_vars

\* the request of j was answered with a stored result
ServedFromStore(j) ==
    \/ enq[j] = "cached"
    \/ hist[j].running /\ hist[j].rendered = 0 /\ Status(j) = "done"

\* C20: a request answered from the store (by the async endpoint or by the
\* cache lookup of the worker's crawl) is answered with a result crawled for
\* the same depth; the store starts empty, so such a crawl was requested.
C20_NoCrossDepthHit ==
    \A j \in Requested :
        ServedFromStore(j) =>
            \E a \in Requested \ {j} :
                /\ req[a].depth = req[j].depth
                /\ Status(a) = "done" /\ hist[a].rendered > 0

(***************************************************************************)
(* The crawl: visited set, batches and renders                             *)
(***************************************************************************)
Crawling(w) == w \in workers_on /\ cr[w].active

BatchUrls(b) == [n \in 1..Len(b.level_urls) |-> b.level_urls[n].url]

Distinct(seq) == \A m, n \in 1..Len(seq) : m # n => seq[m] # seq[n]

RenderedUrls(j) == [n \in 1..Len(hist[j].renders) |-> hist[j].renders[n].url]

C21_State ==
    \A j \in Requested :
        /\ Distinct(RenderedUrls(j))
        /\ \A n \in 1..Len(hist[j].batches) :
              LET b == hist[j].batches[n]
              IN /\ Distinct(BatchUrls(b))
                 /\ \A m \in 1..Len(b.level_urls) : b.level_urls[m].url \notin b.visited

C21_Step ==
    \A w \in Workers :
        Crawling(w) /\ cr'[w].active /\ wjob'[w] = wjob[w]
            => cr[w].visited \subseteq cr'[w].visited

\* C21: within one crawl the visited set only grows, no URL is rendered twice,
\* and every URL of a level batch was outside the visited set when it was
\* batched, also when several pages of one level link to it
C21_VisitedGrowsNoRerender == [](C21_State) /\ [][C21_Step]_vars

\* two pages of one level queued the same link, and its level was rendered
C21_Witness ==
    \E j \in Requested : \E n \in 1..Len(hist[j].batches) :
        LET b == hist[j].batches[n]
        IN /\ \E k, m \in 1..Len(b.queued) :
                 /\ k # m
                 /\ b.queued[k].url = b.queued[m].url
                 /\ b.queued[k].parent # b.queued[m].parent
           /\ \E r \in 1..Len(hist[j].renders) : hist[j].renders[r].level = b.level

RendersAt(j, L) == {n \in 1..Len(hist[j].renders) : hist[j].renders[n].level = L}

WorkerOf(j) == {w \in workers_on : wjob[w] # Nil /\ wjob[w].job_id = j /\ cr[w].active}

\* C22: level 0 renders only the seed, every later level renders at most F
\* URLs, and the render attempts number at most 1 + (D-1)*F and at most the
\* size of the visited set
C22_RenderBound ==
    \A j \in Requested :
        LET D == req[j].depth
            F == req[j].max_urls_per_level
            rs == hist[j].renders
        IN /\ \A n \in RendersAt(j, 0) : rs[n].url = req[j].url
           /\ Cardinality(RendersAt(j, 0)) <= 1
           /\ \A L \in 1..MaxDepth : Cardinality(RendersAt(j, L)) <= F
           /\ Len(rs) <= 1 + (D - 1) * F
           /\ \A w \in WorkerOf(j) : Len(rs) <= Cardinality(cr[w].visited)

\* a crawl that reached the bound after a batch was cut to F
C22_Witness ==
    \E j \in Requested :
        /\ req[j].depth >= 2
        /\ Len(hist[j].renders) = 1 + (req[j].depth - 1) * req[j].max_urls_per_level
        /\ \E n \in 1..Len(hist[j].batches) :
              Cardinality({hist[j].batches[n].queued[k].url :
                              k \in 1..Len(hist[j].batches[n].queued)})
                  > req[j].max_urls_per_level
        /\ \E w \in WorkerOf(j) : Len(hist[j].renders) < Cardinality(cr[w].visited)

\* C23: no page of level D or deeper is rendered, links are extracted on a
\* page of level L only when L + 1 < D, and with depth 1 only the seed is
\* rendered and no links are extracted
C23_DepthGate ==
    \A j \in Requested :
        LET D == req[j].depth
            rs == hist[j].renders
        IN /\ \A n \in 1..Len(rs) :
                 /\ rs[n].level < D
                 /\ rs[n].extract => rs[n].level + 1 < D
           /\ D = 1 => /\ Len(rs) <= 1
                       /\ \A n \in 1..Len(rs) : rs[n].url = req[j].url /\ ~rs[n].extract

\* links were extracted on the level before the last, and a page of the last
\* level was rendered without extracting any
C23_Witness ==
    \E j \in Requested :
        LET D == req[j].depth
            rs == hist[j].renders
        IN /\ D >= 2
           /\ \E n \in 1..Len(rs) : rs[n].level = D - 2 /\ rs[n].extract
           /\ \E n \in 1..Len(rs) :
                 rs[n].level = D - 1 /\ rs[n].outcome = "ok" /\ ~rs[n].extract

Range(seq) == {seq[n] : n \in 1..Len(seq)}

\* the first occurrences of the elements of a sequence, in order
RECURSIVE FirstOccurrences(_)
FirstOccurrences(seq) ==
    IF seq = <<>> THEN <<>>
    ELSE LET d == FirstOccurrences(SubSeq(seq, 1, Len(seq) - 1))
         IN IF seq[Len(seq)] \in Range(d) THEN d ELSE Append(d, seq[Len(seq)])

FirstN(seq, n) == SubSeq(seq, 1, Min(Len(seq), n))

\* the visited set while the pages of batch b are rendered
VisitedAt(b) == b.visited \cup {b.queued[n].url : n \in 1..Len(b.queued)}

\* the valid links of one page, in document order
ValidLinks(j, b, page) ==
    LET Valid(l) == _is_valid_url(l, page, RegisteredDomain(req[j].url), req[j],
                                  VisitedAt(b))
    IN SelectSeq(FirstN(Links(page), LINKS_PER_PAGE), Valid)

\* the valid links discovered by the first n renders of job j on the level
\* of batch b, in encounter order
RECURSIVE Discovered(_, _, _)
Discovered(j, b, n) ==
    IF n = 0 THEN <<>>
    ELSE LET r == hist[j].renders[n]
         IN Discovered(j, b, n - 1) \o
            (IF r.level = b.level /\ r.extract THEN ValidLinks(j, b, r.url) ELSE <<>>)

\* seq is sub with elements left out
RECURSIVE IsSubsequence(_, _)
IsSubsequence(sub, seq) ==
    IF sub = <<>> THEN TRUE
    ELSE IF seq = <<>> THEN FALSE
    ELSE IF Head(sub) = Head(seq) THEN IsSubsequence(Tail(sub), Tail(seq))
    ELSE IsSubsequence(sub, Tail(seq))

CrawlEnded(j) == hist[j].stores > 0

LevelPages(level) == [n \in 1..Len(level.pages) |-> level.pages[n].url]

\* C24: the batch of level L+1 is the first F distinct valid links discovered
\* on level L in encounter order, the pages of a level of the result are in
\* the order of their batch, and a seed with 5 valid links crawled with
\* depth 2 and F = 3 renders exactly 4 pages
C24_BatchOrder ==
    \A j \in Requested :
        LET bs == hist[j].batches
            rs == hist[j].renders
            F == req[j].max_urls_per_level
        IN /\ \A n \in 2..Len(bs) :
                 /\ bs[n].level = bs[n - 1].level + 1
                 /\ BatchUrls(bs[n]) =
                        FirstN(FirstOccurrences(Discovered(j, bs[n - 1], Len(rs))), F)
           /\ \A w \in WorkerOf(j) : \A k \in 1..Len(cr[w].level_results) :
                 \E n \in 1..Len(bs) :
                     /\ bs[n].level = cr[w].level_results[k].level
                     /\ IsSubsequence(LevelPages(cr[w].level_results[k]),
                                      BatchUrls(bs[n]))
           /\ (/\ CrawlEnded(j) /\ req[j].depth = 2 /\ F = 3
               /\ Len(rs) >= 1 /\ rs[1].extract
               /\ Len(FirstOccurrences(ValidLinks(j, bs[1], req[j].url))) = 5)
              => Len(rs) = 4

\* the depth-2, F = 3 crawl of the seed with 5 valid links has ended with its
\* level-1 pages in the result
C24_Witness ==
    \E j \in Requested :
        /\ CrawlEnded(j) /\ req[j].depth = 2 /\ req[j].max_urls_per_level = 3
        /\ Len(hist[j].batches) = 2
        /\ Len(FirstOccurrences(ValidLinks(j, hist[j].batches[1], req[j].url))) = 5
        /\ BatchUrls(hist[j].batches[2]) = <<P1, P2, P3>>
        /\ Len(hist[j].renders) = 4
        /\ \E w \in WorkerOf(j) :
              /\ Len(cr[w].level_results) = 2
              /\ LevelPages(cr[w].level_results[2]) = <<P1, P2, P3>>

\* the key process_job stores the result of job j under
WorkerKey(j) == make_key(FullPath(req[j].url))

OnePageAfterLevel0(levels) ==
    \A n \in 1..Len(levels) : levels[n].level >= 1 => Len(levels[n].pages) = 1

\* C25: with max_urls_per_level = 1 every level after level 0 of the crawl
\* result holds exactly one page
C25_OnePagePerLevel ==
    \A j \in Requested :
        req[j].max_urls_per_level = 1 =>
            /\ \A w \in WorkerOf(j) : OnePageAfterLevel0(cr[w].level_results)
            /\ kv[WorkerKey(j)] # Nil => OnePageAfterLevel0(kv[WorkerKey(j)].levels)
            /\ files[WorkerKey(j)] # Nil =>
                   OnePageAfterLevel0(files[WorkerKey(j)].levels)

\* the stored result of a depth-3 crawl with F = 1 whose seed linked to
\* several pages has levels 0, 1 and 2
C25_Witness ==
    \E j \in Requested :
        /\ req[j].max_urls_per_level = 1 /\ req[j].depth = 3
        /\ Len(hist[j].batches) = 3
        /\ Len(hist[j].batches[2].queued) > 1
        /\ kv[WorkerKey(j)] # Nil
        /\ Len(kv[WorkerKey(j)].levels) = 3
        /\ kv[WorkerKey(j)].levels[3].level = 2

\* the URLs of batch b whose render gave an article, in batch order
RECURSIVE OkUrls(_, _, _)
OkUrls(j, b, n) ==
    IF n = 0 THEN <<>>
    ELSE LET r == hist[j].renders[n]
         IN OkUrls(j, b, n - 1) \o
            (IF r.level = b.level /\ r.outcome = "ok" THEN <<r.url>> ELSE <<>>)

RenderFailed(j) == \E n \in 1..Len(hist[j].renders) : hist[j].renders[n].outcome = "fail"

\* the pages the result holds for a level; none when the level is absent
PagesOfLevel(levels, L) ==
    IF \E n \in 1..Len(levels) : levels[n].level = L
    THEN LevelPages(levels[CHOOSE n \in 1..Len(levels) : levels[n].level = L])
    ELSE <<>>

\* C26: a failed render leaves its page out and nothing else: the other
\* pages of the batch are rendered and aggregated, the result is stored, the
\* job ends done and no exception leaves the crawl
C26_PageFailureContained ==
    \A j \in Requested :
        RenderFailed(j) =>
            LET bs == hist[j].batches
                rs == hist[j].renders
            IN /\ hist[j].raised = ""
               /\ Status(j) \notin {"error", "skipped"}
               /\ \A n \in 1..Len(bs) :
                     (n < Len(bs) \/ CrawlEnded(j)) =>
                         /\ Cardinality(RendersAt(j, bs[n].level)) = Len(bs[n].level_urls)
                         /\ \A w \in WorkerOf(j) :
                               PagesOfLevel(IF CrawlEnded(j) THEN cr[w].result.levels
                                            ELSE cr[w].level_results, bs[n].level)
                                   = OkUrls(j, bs[n], Len(rs))
               /\ Finished(j) =>
                     /\ Status(j) = "done"
                     /\ kv[WorkerKey(j)] # Nil
                     /\ kv[WorkerKey(j)].total_pages =
                            Cardinality({n \in 1..Len(rs) : rs[n].outcome = "ok"})

\* one of three URLs of level 1 failed, the level holds the two others and
\* the job is done
C26_Witness ==
    \E j \in Requested :
        /\ Finished(j) /\ Status(j) = "done"
        /\ Len(hist[j].batches) >= 2
        /\ Len(hist[j].batches[2].level_urls) = 3
        /\ hist[j].renders[3].outcome = "fail"
        /\ PagesOfLevel(kv[WorkerKey(j)].levels, 1) = <<P1, P3>>

\* the URLs batched over the levels of the crawl of job j
RECURSIVE BatchedUrls(_, _)
BatchedUrls(j, n) ==
    IF n = 0 THEN 0
    ELSE BatchedUrls(j, n - 1) + Len(hist[j].batches[n].level_urls)

\* C27: a crawl of depth D driven by the worker emits at least D plus the
\* number of batched URLs snapshots, and the last one has percent 100 and
\* status done
C27_SnapshotCount ==
    \A j \in Requested :
        Finished(j) /\ Status(j) = "done" =>
            LET snaps == hist[j].prog
            IN /\ Len(snaps) >= req[j].depth + BatchedUrls(j, Len(hist[j].batches))
               /\ snaps[Len(snaps)].percent = 10000
               /\ snaps[Len(snaps)].status = "done"

(***************************************************************************)
(* The queue and its job records                                           *)
(***************************************************************************)
\* C28: every id on the list has a job record with status pending, and
\* dequeue_job, having popped an id, finds its record
C28_QueuedHaveRecords ==
    /\ \A n \in 1..Len(queue) :
          jobrec[queue[n]] # Nil /\ jobrec[queue[n]].status = "pending"
    /\ \A w \in workers_on :
          pc[w] = "deq_get" => jobrec[wjob[w].job_id] # Nil

\* one id was popped and its record returned while another waits on the list
C28_Witness ==
    \E j, k \in Requested :
        /\ j # k
        /\ InQueue(j) = 1
        /\ hist[k].returned
        /\ jobrec[k].status # "pending"

(***************************************************************************)
(* The store: cleanup_expired and delete_result                            *)
(***************************************************************************)
KvReachable == cache_cfg.redis_enabled /\ calls.kvOut = "ok"

\* C29: in phases 1 and 2 cleanup_expired sweeps the expired file entries on
\* every call, also with the KV tier enabled and reachable, and reports the
\* KV entry count; in phase 3 it only reports the KV entry count
C29_CleanupSweeps ==
    calls.op = "cleanup" =>
        /\ cache_cfg.phase <= 2 /\ calls.fileOk =>
               \A k \in calls.expired : files[k] = Nil
        /\ KvReachable => calls.count = Cardinality(calls.held)
        /\ cache_cfg.phase = 3 => \A k \in calls.expired : files[k] # Nil

\* the tiers the store works with under its configuration
TiersInUse ==
    (IF RedisOn(cache_cfg) THEN {"kv"} ELSE {}) \cup
    (IF cache_cfg.phase <= 2 THEN {"file"} ELSE {})

\* the tiers in use answered the last call
TiersRespond ==
    /\ "kv" \in TiersInUse => calls.kvOut = "ok"
    /\ "file" \in TiersInUse => calls.fileOk

\* C30: in phases 1 and 2 delete_result(k) removes k from both tiers and
\* returns True iff a tier held it, so that exists(k) is false and
\* load_result(k) is None afterwards when both tiers respond; in phase 3 it
\* removes k from the KV tier only and leaves the file tier as it was
C30_DeleteBothTiers ==
    calls.op = "delete" =>
        LET k == calls.key
        IN /\ cache_cfg.phase <= 2 /\ TiersRespond =>
                 /\ \A t \in TiersInUse : t \notin HeldIn(k)
                 /\ calls.ret = "True" <=> calls.held \cap TiersInUse # {}
                 /\ ~Exists(cache_cfg, Tiers, k, TRUE)
                 /\ LoadResult(cache_cfg, Tiers, k, TRUE).val = Nil
           /\ cache_cfg.phase = 3 =>
                 /\ files[k] = calls.v
                 /\ TiersRespond => kv[k] = Nil /\ (calls.ret = "True" <=> "kv" \in calls.held)

\* a key held by both tiers was deleted in phase 1 or 2 with both answering
C30_Witness ==
    /\ calls.op = "delete"
    /\ cache_cfg.phase <= 2
    /\ TiersInUse = {"kv", "file"}
    /\ TiersRespond
    /\ calls.held = {"kv", "file"}
    /\ calls.ret = "True"
    /\ HeldIn(calls.key) = {}

\* a key held by the file tier was deleted in phase 3
C30_WitnessPhase3 ==
    /\ calls.op = "delete"
    /\ cache_cfg.phase = 3
    /\ calls.held = {"kv", "file"}
    /\ HeldIn(calls.key) = {"file"}

\* C31: in phases 1 and 2 load_result(k) reads the KV tier first and the
\* file tier only on a KV miss; a file hit with the KV tier up is returned
\* and copied into the KV tier while the file entry of k is left as it was;
\* in phase 3 the file tier is never read
C31_LoadFrame ==
    calls.op = "load" =>
        LET k == calls.key
            kvHit == RedisOn(cache_cfg) /\ calls.kvOut = "ok" /\ "kv" \in calls.held
            fileHit == ~kvHit /\ DictTruthy(calls.v)
        IN /\ cache_cfg.phase <= 2 =>
                 /\ kvHit => ~calls.fread /\ ~calls.fwrote /\ calls.got = kv[k]
                 /\ ~kvHit => calls.fread
                 /\ fileHit /\ KvReachable =>
                        /\ calls.got = calls.v
                        /\ kv[k] = calls.v
                        /\ files[k] = calls.v
                        /\ ~calls.fwrote
           /\ cache_cfg.phase = 3 => ~calls.fread /\ ~calls.fwrote /\ files[k] = calls.v

(***************************************************************************)
(* The crawl: pages without an article, parents, link validity             *)
(***************************************************************************)
QueueUrls(q) == {q[n].url : n \in 1..Len(q)}

ResultUrls(pages) == {pages[n].url : n \in 1..Len(pages)}

\* the batch record of level L of job j; there is one per level entered
BatchOf(j, L) ==
    hist[j].batches[CHOOSE n \in 1..Len(hist[j].batches) : hist[j].batches[n].level = L]

HasBatch(j, L) == \E n \in 1..Len(hist[j].batches) : hist[j].batches[n].level = L

\* C32: a page whose article extractor returns an err record or nothing is
\* left out of the level's pages and of the flat list, its links are still
\* extracted when the next level is within depth and its valid links are
\* queued, and the crawl does not raise
C32_NoArticleStillLinks ==
    \A j \in Requested : \A n \in 1..Len(hist[j].renders) :
        LET r == hist[j].renders[n]
            links == Range(ValidLinks(j, BatchOf(j, r.level), r.url))
        IN r.outcome = "err" =>
              /\ hist[j].raised = ""
              /\ r.extract <=> r.level + 1 < req[j].depth
              /\ \A w \in WorkerOf(j) :
                    /\ r.url \notin ResultUrls(cr[w].all_results)
                    /\ r.url \notin ResultUrls(cr[w].pages)
                    /\ \A k \in 1..Len(cr[w].level_results) :
                          r.url \notin ResultUrls(cr[w].level_results[k].pages)
                    /\ r.extract /\ cr[w].current_level = r.level /\ pc[w] # "collect" =>
                          links \subseteq QueueUrls(cr[w].url_queue)
              /\ r.extract /\ HasBatch(j, r.level + 1) =>
                    links \subseteq QueueUrls(BatchOf(j, r.level + 1).queued)

\* the seed gave no article, its links were rendered at level 1 and the
\* crawl ended with a result that leaves the seed out
C32_Witness ==
    \E j \in Requested :
        /\ Len(hist[j].renders) >= 3
        /\ hist[j].renders[1].outcome = "err"
        /\ hist[j].renders[2].outcome = "ok"
        /\ hist[j].renders[2].level = 1
        /\ CrawlEnded(j)
        /\ \E w \in WorkerOf(j) :
              /\ cr[w].result.total_pages >= 2
              /\ PagesOfLevel(cr[w].result.levels, 0) = <<>>

(***************************************************************************)
(* The render semaphore                                                    *)
(***************************************************************************)
InLoop(c) == Conn(c).pc \in {"collect", "page", "level_end"}

C33_State ==
    /\ Cardinality({c \in Conns : InLoop(c)}) <= app.cap
    /\ app.sem = app.cap - Cardinality({c \in Conns : InLoop(c)})
    /\ \A c \in Conns :
          /\ InLoop(c) => Conn(c).took = 1 /\ Conn(c).gave = 0
          /\ Conn(c).pc \in {"store", "returned"} => Conn(c).took = 1 /\ Conn(c).gave = 1
          /\ Conn(c).pc = "cancelled" => Conn(c).took = Conn(c).gave
          /\ Conn(c).pc \in {"new", "wait", "cached"} => Conn(c).took = 0

\* from its first page to its last a crawl neither takes nor gives a slot
C33_Step ==
    \A c \in Conns :
        InLoop(c) /\ (app.conn[c].pc' \in {"collect", "page", "level_end"}) =>
            /\ app.conn[c].took' = Conn(c).took
            /\ app.conn[c].gave' = Conn(c).gave

\* C33: at most C crawls are inside the crawl loop; a crawl holds exactly
\* one slot from its first page to its last, gives it back on every exit,
\* an exception included, and a request answered from the cache takes none
C33_OneSlotPerCrawl == [](C33_State) /\ [][C33_Step]_vars

\* every slot is taken while a request waits, another was cancelled inside
\* the loop and one was answered from the cache
C33_Witness ==
    /\ app.sem = 0
    /\ \E c \in Conns : Conn(c).pc = "wait"
    /\ \E c \in Conns : Conn(c).pc = "page" /\ Conn(c).cr.current_level = 1

\* a request was answered from the cache and another was cancelled inside
\* the loop, and all slots are free again
C33_WitnessHitAndCancel ==
    /\ \E c \in Conns : Conn(c).pc = "cached"
    /\ \E c \in Conns : Conn(c).pc = "cancelled" /\ Conn(c).took = 1
    /\ app.sem = app.cap

(***************************************************************************)
(* Parent indices                                                          *)
(***************************************************************************)
\* the page of the flat list that parent_index names, as a 0-based index
ParentOk(rs, n) ==
    LET p == rs[n].parent_index
    IN IF rs[n].level = 0 THEN p = -1
       ELSE /\ p >= 0
            /\ p < n - 1
            /\ rs[p + 1].level = rs[n].level - 1
            /\ rs[n].url \in Range(Links(rs[p + 1].url))

\* C34: parent_index is -1 for the seed and otherwise the index in the flat
\* result list of the page on which the link was discovered: inside the list,
\* smaller than the page's own index, one level above, also when the
\* article extraction of the parent page failed
C34_ParentIndex ==
    \A w \in Workers :
        Crawling(w) =>
            \A n \in 1..Len(cr[w].all_results) : ParentOk(cr[w].all_results, n)

\* the same, for crawls in which every rendered page gave an article
C34_ParentIndexAllArticles ==
    \A j \in Requested :
        (\A n \in 1..Len(hist[j].renders) : hist[j].renders[n].outcome # "err") =>
            \A w \in WorkerOf(j) :
                \A n \in 1..Len(cr[w].all_results) : ParentOk(cr[w].all_results, n)

(***************************************************************************)
(* Link validity                                                           *)
(***************************************************************************)
\* the text of u holds one of the hard-coded patterns once it is lower-cased
HasSkipText(u) ==
    \/ u.fragment # ""
    \/ \E n \in 1..Len(u.path) :
          LowerTok(u.path[n]) \in {"login", "logout", "register", "signup", "admin",
                                   "feed", "rss", "api", "ajax"}
    \/ u.scheme \in {"mailto:", "tel:", "javascript:"}

\* C35: every URL rendered at a level above 0 had an http or https scheme,
\* was not visited when it was queued, is of the seed's registered domain
\* when same-domain-only is set, holds none of the exclude patterns in its
\* own case and none of the hard-coded skip patterns in lower case; a link
\* failing any of these is never rendered
C35_RenderedWereValid ==
    \A j \in Requested : \A n \in 1..Len(hist[j].renders) :
        LET r == hist[j].renders[n]
        IN r.level > 0 =>
              /\ r.url.scheme \in {"http", "https"}
              /\ HasBatch(j, r.level - 1)
              /\ r.url \notin VisitedAt(BatchOf(j, r.level - 1))
              /\ req[j].same_domain_only =>
                     Lower(r.url.netloc) = Lower(req[j].url.netloc)
              /\ \A pattern \in req[j].exclude_patterns :
                     /\ \A m \in 1..Len(r.url.path) : r.url.path[m] # pattern
                     /\ \A m \in 1..Len(r.url.netloc) : r.url.netloc[m] # pattern
              /\ ~HasSkipText(r.url)

\* without the domain restriction and with an exclude pattern in another
\* case, a page of another site and the page /b were rendered at level 1 and
\* a page found on the other site at level 2
C35_Witness ==
    \E j \in Requested :
        /\ ~req[j].same_domain_only
        /\ req[j].exclude_patterns = {"B"}
        /\ req[j].url = UE
        /\ \E n \in RendersAt(j, 1) : hist[j].renders[n].url = X1
        /\ \E n \in RendersAt(j, 1) : hist[j].renders[n].url = P2
        /\ \E n \in RendersAt(j, 2) : hist[j].renders[n].url = P3

(***************************************************************************)
(* Job status                                                              *)
(***************************************************************************)
StatusOf(rec) == IF rec = Nil THEN "absent" ELSE rec.status

\* the status changes the job life cycle allows
StatusMoves ==
    {<<"absent", "pending">>, <<"pending", "running">>, <<"pending", "skipped">>,
     <<"running", "done">>, <<"running", "error">>}

C36_Step ==
    \A j \in Jobs :
        \/ StatusOf(jobrec[j]') = StatusOf(jobrec[j])
        \/ <<StatusOf(jobrec[j]), StatusOf(jobrec[j]')>> \in StatusMoves

\* C36: a job's status goes pending, running, then done or error, or pending
\* then skipped, and a terminal status never changes: a job that reached
\* done stays done also when a step after the done write raises
C36_StatusPath == [][C36_Step]_vars

\* the status path without the step from done
C36_PathUntilDone ==
    [][\A j \in Jobs :
          \/ StatusOf(jobrec[j]) = "done"
          \/ StatusOf(jobrec[j]') = StatusOf(jobrec[j])
          \/ <<StatusOf(jobrec[j]), StatusOf(jobrec[j]')>> \in StatusMoves]_vars

(***************************************************************************)
(* Subscribers of a job that has ended                                     *)
(***************************************************************************)
\* process_job has ended for j with a terminal status: nothing is published
\* for j from here on
Over(j) == Finished(j) /\ Status(j) \in {"done", "error", "skipped"}

\* the connection has read every message it was given and is not closed
Waiting(s) == spc[s] \in {"subscribing", "listening"} /\ inbox[s] = <<>>

\* C37: every connection opened on a job's stream receives a terminal
\* snapshot and is closed once the job is terminal, in every interleaving;
\* no connection is left waiting on a job that has ended
C37_NoSubscriberLeftWaiting ==
    \A s \in Subs : spc[s] # "none" /\ Over(sjob[s]) => ~Waiting(s)

\* the same for the connections opened while the job was not over
C37_EarlyNotLeftWaiting ==
    \A s \in Subs : spc[s] # "none" /\ Over(sjob[s]) /\ ~late[s] => ~Waiting(s)

(***************************************************************************)
(* Reading back the last write                                             *)
(***************************************************************************)
\* this step is a load_result with Redis answering, in phase 1 or 2, of the
\* key of the call made just before it
LoadsKeyOfLastCall ==
    /\ cache_cfg.phase <= 2
    /\ calls'.op = "load"
    /\ calls'.kvOut = "ok"
    /\ calls'.key = calls.key

ReadsBackLastCall ==
    /\ calls.op = "store" /\ calls.ret = "True" => calls'.got = Json(calls.v)
    /\ calls.op = "delete" /\ calls.ret = "True" => calls'.got = Nil

\* C38: in phases 1 and 2 load_result(k) returns the value of the most
\* recent store_result(k, .) that returned True, and None after a
\* delete_result(k) that returned True, also when the key-value store
\* failed during that store or delete
C38_ReadYourWrites == [][LoadsKeyOfLastCall => ReadsBackLastCall]_vars

\* the same when no tier failed during the store or delete
C38_ReadYourWritesNoFault ==
    [][LoadsKeyOfLastCall /\ calls.kvOut = "ok" /\ calls.fileOk => ReadsBackLastCall]_vars

(***************************************************************************)
(* Normalizing twice                                                       *)
(***************************************************************************)
\* the path is two or more slashes and nothing else
OnlySlashes(path) == Len(path) >= 2 /\ \A n \in 1..Len(path) : path[n] = "/"

Idempotent(u) ==
    /\ normalize_url(normalize_url(u)) = normalize_url(u)
    /\ make_key(normalize_url(u)) = make_key(u)

\* C39: normalize_url is idempotent for every URL, with an empty path, the
\* root path and paths of one or several trailing slashes alone included,
\* so the lock key and the cache key of a normalized URL are those of the
\* original
C39_NormalizeIdempotent ==
    \A w \in Workers :
        pc[w] = "acquire" =>
            /\ Idempotent(wjob[w].params.url)
            /\ normalize_url(LockKey(w)) = LockKey(w)

\* the same for the URLs whose path is not made of several slashes alone
C39_IdempotentButSlashes ==
    \A w \in Workers :
        pc[w] = "acquire" /\ ~OnlySlashes(wjob[w].params.url.path) =>
            /\ Idempotent(wjob[w].params.url)
            /\ normalize_url(LockKey(w)) = LockKey(w)

(***************************************************************************)
(* URLs cut by the fan-out cap                                             *)
(***************************************************************************)
\* the URLs collected into batch b, in order: popped and not yet visited
Collected(b) ==
    LET urls == FirstOccurrences([n \in 1..Len(b.queued) |-> b.queued[n].url])
        New(u) == u \notin b.visited
    IN SelectSeq(urls, New)

\* the collected URLs past the cap F
CutUrls(b, F) == {Collected(b)[n] : n \in (F + 1)..Len(Collected(b))}

\* C40: a URL collected into a level's batch and cut by the fan-out cap
\* stays in the visited set without being rendered and is not rendered at a
\* later level, also when deeper pages link to it; every rendered URL is in
\* the visited set
C40_CutNeverRendered ==
    \A j \in Requested : \A w \in WorkerOf(j) :
        /\ Range(RenderedUrls(j)) \subseteq cr[w].visited
        /\ \A n \in 1..Len(hist[j].batches) :
              \A u \in CutUrls(hist[j].batches[n], req[j].max_urls_per_level) :
                  /\ u \in cr[w].visited
                  /\ u \notin Range(RenderedUrls(j))

\* the hub crawled three levels deep with a cap of two: /d was cut at level
\* 1, the page /a that links to it was rendered and gave its links, and the
\* crawl has rendered a page of level 2; /d is visited and was not rendered
C40_Witness ==
    \E j \in Requested : \E w \in WorkerOf(j) :
        /\ req[j].url = UD /\ req[j].max_urls_per_level = 2
        /\ HasBatch(j, 1) /\ P4 \in CutUrls(BatchOf(j, 1), 2)
        /\ \E n \in RendersAt(j, 1) :
              /\ hist[j].renders[n].url = P1
              /\ hist[j].renders[n].extract
              /\ P4 \in Range(Links(P1))
        /\ RendersAt(j, 2) # {}
        /\ P4 \in cr[w].visited
        /\ cr[w].visited # Range(RenderedUrls(j))

====
